---- MODULE Spec2Model ----
(***************************************************************************)
(* cryptctl key server: the key database (keydb), the record model and the *)
(* control-plane RPC service (keyserv), with the embedded KMIP key service *)
(* as key-material backend (the configuration with no KMIP_SERVER_ADDRESSES)*)
(*                                                                         *)
(* One action is one critical section of a request handler: the database   *)
(* lock makes Select, UpdateAliveMessage, Upsert and Erase atomic, and the *)
(* CreateKey handler, which takes the lock several times, is a sequence of *)
(* steps that other requests may interleave with.                          *)
(***************************************************************************)
EXTENDS Integers, Sequences, FiniteSets, TLC

\* ---------------------------------------------------------------- bounds
MaxTime == 2          \* the wall clock (Unix seconds) runs from 0 to MaxTime
MaxSeq == 1           \* at most MaxSeq records are ever created
MaxUUIDs == 1         \* a retrieval or alive request names at most MaxUUIDs uuids
MaxBeats == 1         \* the largest alive_count a CreateKey request carries

\* ------------------------------------------------------------ input sets
UUIDs == {"u1", "u2"}                \* the uuids a request may name
NewUUIDs == {"u1", ""}               \* the uuids a CreateKey request may carry
IPs == {"ip1", "ip2"}
Hostnames == {"h1"}
\* the hostnames of the requests of SpecHost
TwoHostnames == {"h1", "h2"}
MaxActiveChoices == {0, 1}
AliveIntervalChoices == {1}
AliveCountChoices == 0..MaxBeats

ZeroHash == 0                       \* the all-zero hash / salt
GoodHash == 1                       \* HashPassword(salt, the operator's password)
Hashes == {ZeroHash, GoodHash, 2}   \* hashes a client may present

NoID == 0                           \* Record.ID == ""
NoKey == 0                          \* Record.Key is empty

\* UUID sequences of length 1..n
RECURSIVE SeqsUpTo(_, _)
SeqsUpTo(S, n) ==
    IF n = 0 THEN {<<>>}
    ELSE LET shorter == SeqsUpTo(S, n - 1)
         IN shorter \cup {Append(s, x) : s \in {t \in shorter : Len(t) = n - 1}, x \in S}

UUIDLists == SeqsUpTo(UUIDs, MaxUUIDs) \ {<<>>}

\* ---------------------------------------------------------- record model
AliveMessage(hostname, ip, ts) == [Hostname |-> hostname, IP |-> ip, Timestamp |-> ts]

ZeroAliveMessage == AliveMessage("", "", 0)

EmptyMap == [x \in {} |-> <<>>]

\* the Record literal of HandleCreateRequest: only UUID and Key are set
BlankRecord(uuid, key) ==
    [ID |-> NoID, UUID |-> uuid, Key |-> key,
     MaxActive |-> 0, AliveIntervalSec |-> 0, AliveCount |-> 0,
     LastRetrieval |-> ZeroAliveMessage, AliveMessages |-> EmptyMap,
     PendingCommands |-> EmptyMap]

MapPut(m, k, v) == [x \in (DOMAIN m) \cup {k} |-> IF x = k THEN v ELSE m[x]]

MapRestrict(m, S) == [x \in S |-> m[x]]

IsHostAlive(rec, hostIP, t) ==
    IF hostIP \in DOMAIN rec.AliveMessages
    THEN LET beat == rec.AliveMessages[hostIP]
         IN IF Len(beat) = 0 THEN FALSE
            ELSE beat[Len(beat)].Timestamp >= t - rec.AliveIntervalSec * rec.AliveCount
    ELSE FALSE

\* the hosts RemoveDeadHosts deletes
DeadHosts(rec, t) == {ip \in DOMAIN rec.AliveMessages : ~IsHostAlive(rec, ip, t)}

RemoveDeadHosts(rec, t) ==
    [rec EXCEPT !.AliveMessages = MapRestrict(@, (DOMAIN @) \ DeadHosts(rec, t))]

\* UpdateLastRetrieval once the dead hosts are gone: the early return when
\* the record is full, else the new epoch of the requester.  Result: ok, the
\* record as the method leaves it, panic (makeslice with a negative capacity)
RetrievalResult(swept, latestBeat, full) ==
    IF full
    THEN [ok |-> FALSE, rec |-> swept, panic |-> FALSE]
    ELSE IF swept.AliveCount < 0
    THEN [ok |-> FALSE, rec |-> swept, panic |-> TRUE]
    ELSE [ok |-> TRUE,
          rec |-> [swept EXCEPT !.LastRetrieval = latestBeat,
                                !.AliveMessages = MapPut(@, latestBeat.IP, <<latestBeat>>)],
          panic |-> FALSE]

\* variant: the cap compared with > where the code has >=
UpdateLastRetrieval_CapOffByOne(rec, latestBeat, checkMaxActive, t) ==
    LET swept == RemoveDeadHosts(rec, t)
    IN RetrievalResult(swept, latestBeat,
                       checkMaxActive /\ rec.MaxActive > 0
                       /\ Cardinality(DOMAIN swept.AliveMessages) > rec.MaxActive)

\* variant: a host that already holds the key is let in again
UpdateLastRetrieval_HolderExempt(rec, latestBeat, checkMaxActive, t) ==
    LET swept == RemoveDeadHosts(rec, t)
    IN RetrievalResult(swept, latestBeat,
                       checkMaxActive /\ rec.MaxActive > 0
                       /\ latestBeat.IP \notin DOMAIN swept.AliveMessages
                       /\ Cardinality(DOMAIN swept.AliveMessages) >= rec.MaxActive)

\* variant: the cap compared with the holders as they were before the sweep
UpdateLastRetrieval_CheckBeforeSweep(rec, latestBeat, checkMaxActive, t) ==
    LET swept == RemoveDeadHosts(rec, t)
    IN RetrievalResult(swept, latestBeat,
                       checkMaxActive /\ rec.MaxActive > 0
                       /\ Cardinality(DOMAIN rec.AliveMessages) >= rec.MaxActive)

\* variant: the cap enforced whatever checkMaxActive says
UpdateLastRetrieval_AlwaysEnforced(rec, latestBeat, checkMaxActive, t) ==
    LET swept == RemoveDeadHosts(rec, t)
    IN RetrievalResult(swept, latestBeat,
                       rec.MaxActive > 0
                       /\ Cardinality(DOMAIN swept.AliveMessages) >= rec.MaxActive)

\* variant: the message of a refused retrieval is kept among the alive
\* messages
UpdateLastRetrieval_NotesRefused(rec, latestBeat, checkMaxActive, t) ==
    LET swept == RemoveDeadHosts(rec, t)
        full == checkMaxActive /\ rec.MaxActive > 0
                /\ Cardinality(DOMAIN swept.AliveMessages) >= rec.MaxActive
        noted == [swept EXCEPT !.AliveMessages = MapPut(@, latestBeat.IP, <<latestBeat>>)]
    IN RetrievalResult(IF full THEN noted ELSE swept, latestBeat, full)

\* variant: a max_active of 0 is a cap of no holders
UpdateLastRetrieval_ZeroIsCap(rec, latestBeat, checkMaxActive, t) ==
    LET swept == RemoveDeadHosts(rec, t)
    IN RetrievalResult(swept, latestBeat,
                       checkMaxActive /\ rec.MaxActive >= 0
                       /\ Cardinality(DOMAIN swept.AliveMessages) >= rec.MaxActive)

UpdateLastRetrieval(rec, latestBeat, checkMaxActive, t) ==
    LET swept == RemoveDeadHosts(rec, t)
    IN RetrievalResult(swept, latestBeat,
                       checkMaxActive /\ rec.MaxActive > 0
                       /\ Cardinality(DOMAIN swept.AliveMessages) >= rec.MaxActive)

\* variant: a holder whose last message is past the timeout is dropped and
\* refused (the message's own timestamp is the time of arrival)
UpdateAliveMessage_ExpiresHolder(rec, latestBeat) ==
    IF latestBeat.IP \in DOMAIN rec.AliveMessages
       /\ IsHostAlive(rec, latestBeat.IP, latestBeat.Timestamp)
    THEN [ok |-> TRUE,
          rec |-> [rec EXCEPT !.AliveMessages[latestBeat.IP] = <<latestBeat>>],
          panic |-> FALSE]
    ELSE [ok |-> FALSE,
          rec |-> [rec EXCEPT !.AliveMessages =
                      MapRestrict(@, (DOMAIN @) \ {latestBeat.IP})],
          panic |-> FALSE]

\* variant: a host that is not a holder is taken in by its first message
UpdateAliveMessage_AddsHost(rec, latestBeat) ==
    [ok |-> latestBeat.IP \in DOMAIN rec.AliveMessages,
     rec |-> [rec EXCEPT !.AliveMessages = MapPut(@, latestBeat.IP, <<latestBeat>>)],
     panic |-> FALSE]

\* variant: a holder is known by the hostname it reported, not only by its IP
UpdateAliveMessage_ByHostname(rec, latestBeat) ==
    IF latestBeat.IP \in DOMAIN rec.AliveMessages
       /\ \E i \in 1..Len(rec.AliveMessages[latestBeat.IP]) :
             rec.AliveMessages[latestBeat.IP][i].Hostname = latestBeat.Hostname
    THEN [ok |-> TRUE,
          rec |-> [rec EXCEPT !.AliveMessages[latestBeat.IP] = <<latestBeat>>],
          panic |-> FALSE]
    ELSE [ok |-> FALSE, rec |-> rec, panic |-> FALSE]

\* Result: ok, the record as the method leaves it, panic (slice bounds out
\* of range in beats[len(beats)-rec.AliveCount+1:])
UpdateAliveMessage(rec, latestBeat) ==
    IF latestBeat.IP \in DOMAIN rec.AliveMessages
    THEN LET beats == rec.AliveMessages[latestBeat.IP]
             low == Len(beats) - rec.AliveCount + 1
         IN IF Len(beats) >= rec.AliveCount
            THEN IF low > Len(beats)
                 THEN [ok |-> FALSE, rec |-> rec, panic |-> TRUE]
                 ELSE [ok |-> TRUE,
                       rec |-> [rec EXCEPT !.AliveMessages[latestBeat.IP] =
                                   Append(SubSeq(beats, low + 1, Len(beats)), latestBeat)],
                       panic |-> FALSE]
            ELSE [ok |-> TRUE,
                  rec |-> [rec EXCEPT !.AliveMessages[latestBeat.IP] = Append(beats, latestBeat)],
                  panic |-> FALSE]
    ELSE [ok |-> FALSE, rec |-> rec, panic |-> FALSE]

\* ------------------------------------------------------------ TTLV codec
TypStruct == 1
TypInt == 2
TypLong == 3
TypeEnum == 5
TypeText == 7
TypeBytes == 8
TypeDateTime == 9
\* 3 bytes of tag, 1 byte of type, 4 bytes of length
LenTTL == 3 + 1 + 4
MaxKMIPStructLen == 65536

\* the largest number of items of a structure, and the deepest nesting, of
\* the items that are encoded
MaxItems == 2
MaxDepth == 2

\* An item is its Go type (kind), its TTL (Tag, Typ, Length) and its value:
\* an int32 or int64, a sequence of bytes, <<seconds, nanoseconds>> of a
\* time.Time, or the sequence of the items of a structure
Item(kind, tag, typ, length, value) ==
    [kind |-> kind, Tag |-> tag, Typ |-> typ, Length |-> length, Value |-> value]

\* the nil Item
NilItem == Item("nil", <<>>, 0, 0, <<>>)

IsStructure(x) == x.kind = "Structure"

\* the type byte ResetTyp gives each implementation of Item
TypOf(kind) ==
    CASE kind = "Structure" -> TypStruct
      [] kind = "Integer" -> TypInt
      [] kind = "LongInteger" -> TypLong
      [] kind = "Enumeration" -> TypeEnum
      [] kind = "Text" -> TypeText
      [] kind = "Bytes" -> TypeBytes
      [] kind = "DateTime" -> TypeDateTime

RoundUpTo8(n) == IF n % 8 # 0 THEN n + (8 - (n % 8)) ELSE n

\* binary.Write(buf, binary.BigEndian, v) for an integer of n bytes: the
\* two's complement of v, most significant byte first
RECURSIVE EncodeIntBigEndian(_, _)
EncodeIntBigEndian(v, n) ==
    IF n = 0 THEN <<>> ELSE Append(EncodeIntBigEndian(v \div 256, n - 1), v % 256)

RECURSIVE Accumulate(_, _)
Accumulate(acc, bytes) ==
    IF bytes = <<>> THEN acc ELSE Accumulate(acc * 256 + Head(bytes), Tail(bytes))

\* binary.Read(reader, binary.BigEndian, &v) into a signed integer as wide
\* as the bytes given
ReadBigEndian(bytes) ==
    Accumulate(IF bytes[1] >= 128 THEN bytes[1] - 256 ELSE bytes[1], Tail(bytes))

Zeros(n) == [i \in 1..n |-> 0]

RECURSIVE GetLength(_)
GetLength(x) ==
    CASE x.kind = "Structure" ->
            IF x.Value = <<>> THEN 0
            ELSE LenTTL + RoundUpTo8(GetLength(Head(x.Value)))
                    + GetLength([x EXCEPT !.Value = Tail(x.Value)])
      [] x.kind \in {"Integer", "Enumeration"} -> 4
      [] x.kind \in {"LongInteger", "DateTime"} -> 8
      [] x.kind \in {"Text", "Bytes"} -> Len(x.Value)

\* the item as EncodeAny leaves it: ResetTyp and GetLength write the TTL of
\* the item and of every item below it
RECURSIVE Measured(_)
Measured(x) ==
    [x EXCEPT !.Typ = TypOf(x.kind),
              !.Length = GetLength(x),
              !.Value = IF IsStructure(x)
                        THEN [i \in DOMAIN x.Value |-> Measured(x.Value[i])]
                        ELSE @]

RECURSIVE EncodeAny(_)
RECURSIVE EncodeItems(_)
\* for _, item := range t.Items { buf.Write(EncodeAny(item)) }
EncodeItems(items) ==
    IF items = <<>> THEN <<>> ELSE EncodeAny(Head(items)) \o EncodeItems(Tail(items))

EncodeAny(x) ==
    LET header == x.Tag \o <<TypOf(x.kind)>> \o EncodeIntBigEndian(GetLength(x), 4)
    IN CASE x.kind = "Structure" -> header \o EncodeItems(x.Value)
         [] x.kind \in {"Integer", "Enumeration"} ->
               header \o EncodeIntBigEndian(x.Value, 4) \o <<0, 0, 0, 0>>
         [] x.kind = "LongInteger" -> header \o EncodeIntBigEndian(x.Value, 8)
         [] x.kind = "DateTime" -> header \o EncodeIntBigEndian(x.Value[1], 8)
         [] x.kind \in {"Text", "Bytes"} ->
               header \o x.Value \o Zeros(RoundUpTo8(Len(x.Value)) - Len(x.Value))

\* what DecodeAny returns: ret, length, err ("" for nil); a slice expression
\* that reaches past the buffer is the run-time panic
Decoded(item, length, err) == [item |-> item, length |-> length, err |-> err]

\* variant: an item of length 0 is decoded like any other
LengthRefused_Never(length) == FALSE

\* if length <= 0 { return nil, length, fmt.Errorf(...) }
LengthRefused(length) == length <= 0

RECURSIVE DecodeAny(_)
RECURSIVE DecodeItems(_, _)
\* the loop of the TypStruct case: in is what is left of the structure's
\* value, items the items decoded so far
DecodeItems(in, items) ==
    LET d == DecodeAny(in)
        itemIndex == LenTTL + d.length
    IN IF d.err # "" THEN Decoded(NilItem, 0, d.err)
       ELSE IF itemIndex >= Len(in)
       THEN Decoded(Append(items, d.item), 0, "")
       ELSE DecodeItems(SubSeq(in, itemIndex + 1, Len(in)), Append(items, d.item))

DecodeAny(in) ==
    IF Len(in) < LenTTL THEN Decoded(NilItem, 0, "")
    ELSE LET tag == SubSeq(in, 1, 3)
             typ == in[4]
             length == ReadBigEndian(SubSeq(in, 5, 8))
             rest == SubSeq(in, LenTTL + 1, Len(in))
             kind == CHOOSE k \in {"Structure", "Integer", "LongInteger", "Enumeration",
                                   "Text", "Bytes", "DateTime"} : TypOf(k) = typ
         IN IF LengthRefused(length) THEN Decoded(NilItem, length, "Malformed")
            ELSE IF typ \in {TypeEnum, TypInt}
            THEN IF Len(rest) < 4 THEN Decoded(NilItem, 8, "panic")
                 ELSE Decoded(Item(kind, tag, typ, length, ReadBigEndian(SubSeq(rest, 1, 4))), 8, "")
            ELSE IF typ = TypLong
            THEN IF Len(rest) < 8 THEN Decoded(NilItem, 8, "panic")
                 ELSE Decoded(Item(kind, tag, typ, length, ReadBigEndian(SubSeq(rest, 1, 8))), 8, "")
            ELSE IF typ = TypStruct
            THEN IF Len(rest) < length THEN Decoded(NilItem, length, "panic")
                 ELSE LET d == DecodeItems(SubSeq(rest, 1, length), <<>>)
                      IN IF d.err = "panic" THEN Decoded(NilItem, length, "panic")
                         ELSE IF d.err # "" THEN Decoded(NilItem, length, "Malformed")
                         ELSE Decoded(Item(kind, tag, typ, length, d.item), length, "")
            ELSE IF typ \in {TypeText, TypeBytes}
            THEN IF Len(rest) < length THEN Decoded(NilItem, length, "panic")
                 ELSE Decoded(Item(kind, tag, typ, length, SubSeq(rest, 1, length)),
                              RoundUpTo8(length), "")
            ELSE IF typ = TypeDateTime
            THEN IF Len(rest) < 8 THEN Decoded(NilItem, 8, "panic")
                 ELSE Decoded(Item(kind, tag, typ, length,
                                   <<ReadBigEndian(SubSeq(rest, 1, 8)), 0>>), 8, "")
            ELSE Decoded(NilItem, length, "UnknownType")

\* the err that ReadFullTTLV returns with a nil item when the declared
\* length is outside 1..MaxKMIPStructLen: the err of binary.Read, which has
\* read its four bytes and is nil
LengthError(structLen) == ""

\* ReadFullTTLV on a connection that delivers the frame whole: the item,
\* the error, and how many bytes of the value were asked for
ReadFullTTLV(frame) ==
    IF Len(frame) < LenTTL THEN [item |-> NilItem, err |-> "EOF", asked |-> 0]
    ELSE LET structLen == ReadBigEndian(SubSeq(frame, 5, 8))
         IN IF structLen < 1 \/ structLen > MaxKMIPStructLen
            THEN [item |-> NilItem, err |-> LengthError(structLen), asked |-> 0]
            ELSE LET got == SubSeq(frame, LenTTL + 1, LenTTL + structLen)
                     d == DecodeAny(SubSeq(frame, 1, LenTTL) \o got
                                       \o Zeros(structLen - Len(got)))
                 IN [item |-> d.item, err |-> d.err, asked |-> structLen]

\* ------------------------------------------------------ connections, KMIP
MaxConns == 3        \* connections clients try in SpecRPC
MaxEndpoints == 2    \* KMIP server addresses configured in SpecKMIP

ConnIDs == 1..MaxConns

\* a connection no client has tried yet
NoConn == [pc |-> "none"]

\* the KMIP client at rest
NoCall == [pc |-> "idle"]

\* the goroutines that call the operations of the database at the same time
MaxGoroutines == 2

Goroutines == 1..MaxGoroutines

\* a call of an operation of the database: its name and its arguments; ts is
\* the Timestamp the caller gave its alive message before the call
Call(name, ip, uuid, checkMaxActive, ts) ==
    [name |-> name, ip |-> ip, uuid |-> uuid, checkMaxActive |-> checkMaxActive, ts |-> ts]

NoOp == Call("none", "", "", FALSE, 0)

\* what an operation returns: Select's found, rejected and missing,
\* UpdateAliveMessage's rejected (found: the uuids it took the message for),
\* the error of Upsert and Erase
Returned(found, rejected, missing, err) ==
    [found |-> found, rejected |-> rejected, missing |-> missing, err |-> err]

NoResult == Returned({}, {}, {}, "")

\* the database as an operation reads and leaves it
Store(db, seq) == [db |-> db, seq |-> seq]

EmptyStore == Store([U |-> EmptyMap, I |-> EmptyMap], 0)

\* a goroutine outside the database; seen: the records its operation
\* looked up once it had the lock
Parked == [pc |-> "idle", op |-> NoOp, seen |-> EmptyStore]

\* the operation that returned last: its call, what it returned, what it
\* returns when the operations run one after the other, whether the record
\* had exactly one free slot when it ran, and the goroutines that had called
\* an operation and not returned from it as it returned
Prev(op, result, expected, oneFree, waiters) ==
    [op |-> op, result |-> result, expected |-> expected, oneFree |-> oneFree,
     waiters |-> waiters]

NoPrev == Prev(NoOp, NoResult, NoResult, FALSE, {})

\* no goroutine is inside an operation of the database and the lock is free.
\* lock: the goroutine that holds db.Lock, 0 when it is free; order: the
\* goroutines inside an operation, in the order in which they acquired the
\* lock; serial: the database that the operations returned so far leave
\* when they run one after the other in that order
NoTasks == [lock |-> 0, order |-> <<>>, serial |-> EmptyStore, prev |-> NoPrev,
            g |-> [p \in Goroutines |-> Parked]]

\* no frame has been put on a KMIP connection
NoFrame == [pc |-> "idle"]

\* the unlock routine of the client computer has not been started
NotStarted == [pc |-> "idle"]

\* ------------------------------------------------------------------ state
VARIABLES
    Config,           \* CryptServiceConfig: PasswordHash, PasswordSalt
    RecordsByUUID,    \* DB.RecordsByUUID (DB.Records in the older db.go)
    RecordsByID,      \* DB.RecordsByID
    LastSequenceNum,  \* the sequence allocator
    now,              \* time.Now().Unix()
    crashed,          \* a handler goroutine panicked: the process is gone
    inflight,         \* the CreateKey request being handled, or NoRequest
    last,             \* the step just taken, with the reply the handler gave
    assigned,         \* history: the ids the sequence allocator has given out, in order
    issued,           \* history: how many pending commands were queued so far
    delivered,        \* history: the Serial of each command PollCommand has returned
    Listener,         \* CryptServer.Listener: "open" or "closed"
    acceptLoop,       \* CryptServer.HandleConnections: "running" or "returned"
    conns,            \* the connections clients have tried, each with its one RPC
    kmip,             \* the KMIP client's request in progress and its outcome
    wire,             \* a TTLV item on its way through EncodeAny, ReadFullTTLV and DecodeAny
    unlock,           \* the unlock command on a client computer: the loop of AutoOnlineUnlockFS or of ReportAlive
    tasks,            \* the goroutines inside the database's operations, and the lock
    disk              \* the record files of the database directory, by uuid

\* the variables the database operations never touch
aside == <<wire, unlock, tasks, disk>>

apart == <<Listener, acceptLoop, conns, kmip, aside>>

\* the variables the key server's handlers for keys never touch
others == <<issued, delivered, apart>>

vars == <<Config, RecordsByUUID, RecordsByID, LastSequenceNum, now, crashed, inflight, last,
          assigned, issued, delivered, Listener, acceptLoop, conns, kmip,
          wire, unlock, tasks, disk>>

NoRequest == [pc |-> "idle"]

\* The request just handled and its reply.  op: the handler (or step) that
\* ran; ip: the connection's remote address where the handler uses it; pass:
\* <<h>> when the request carried the hash h; uuids: the uuids named, once
\* the request is past the password check; err: the error returned ("" for
\* nil); selected: the uuids the database accepted (Select's found, or the
\* alive messages recorded); granted: the uuids whose key the reply carries;
\* rejected, missing: as in the reply; swept: the <<uuid, ip>> removed as
\* dead; silent: the uuids whose holder, the reporter, was past its timeout
Event(op, ip, pass, uuids, err, selected, granted, rejected, missing, swept, silent) ==
    [op |-> op, ip |-> ip, pass |-> pass, uuids |-> uuids, err |-> err,
     selected |-> selected, granted |-> granted, rejected |-> rejected,
     missing |-> missing, swept |-> swept, silent |-> silent]

\* a reply that carries an error and nothing else, or a step with no reply yet
Plain(op, pass, err) == Event(op, "", pass, <<>>, err, {}, {}, {}, {}, {}, {})

\* the handler panicked: no reply, the process is gone
Panicked(op, ip, pass, uuids) == Event(op, ip, pass, uuids, "panic", {}, {}, {}, {}, {}, {})

Range(seq) == {seq[i] : i \in 1..Len(seq)}

DBState == [U |-> RecordsByUUID, I |-> RecordsByID]

\* ------------------------------------------------------------ admin state
\* variant: only a configuration with both parameters all-zero is refused
CheckInitialSetup_BothZero(conf) ==
    IF conf.PasswordHash = ZeroHash /\ conf.PasswordSalt = ZeroHash
    THEN "NotInitialized" ELSE ""

CheckInitialSetup(conf) ==
    IF conf.PasswordHash = ZeroHash \/ conf.PasswordSalt = ZeroHash
    THEN "NotInitialized" ELSE ""

\* variant: the hash is never compared
ValidatePassword_NoCompare(conf, pass) == CheckInitialSetup(conf)

ValidatePassword(conf, pass) ==
    IF CheckInitialSetup(conf) # "" THEN CheckInitialSetup(conf)
    ELSE IF pass # conf.PasswordHash THEN "BadPassword"
    ELSE ""

\* --------------------------------------------------------------- database
\* A Record value holds its AliveMessages map by reference: the copy a
\* handler works on and the entries of both indexes are one map, so a change
\* made through the copy is seen in the database at once, saved or not.
ShareAliveMessages(db, uuid, am) ==
    LET id == db.U[uuid].ID
    IN [U |-> [db.U EXCEPT ![uuid].AliveMessages = am],
        I |-> IF id \in DOMAIN db.I THEN [db.I EXCEPT ![id].AliveMessages = am] ELSE db.I]

\* the by-id index after a record is stored, and after one is erased
IndexByID(ids, rec) == MapPut(ids, rec.ID, rec)

UnindexByID(ids, rec) == MapRestrict(ids, (DOMAIN ids) \ {rec.ID})

\* variant: the allocator stops advancing once it has given out one id
AssignID_Stuck(seq) == IF seq = 0 THEN 1 ELSE seq

\* the id Upsert gives a record that arrives without one
AssignID(seq) == seq + 1

\* db.Records[rec.UUID] = rec, once the record file is written
upsert(db, rec, ioOK) ==
    IF ioOK
    THEN [U |-> MapPut(db.U, rec.UUID, rec), I |-> IndexByID(db.I, rec)]
    ELSE db

GetByID(db, id) == IF id \in DOMAIN db.I THEN db.I[id] ELSE BlankRecord("", NoKey)

\* variant: the record stays in the indexes
Erase_Keeps(db, uuid) == db

\* Erase: the record leaves the indexes before its file is wiped
Erase(db, uuid) ==
    [U |-> MapRestrict(db.U, (DOMAIN db.U) \ {uuid}),
     I |-> UnindexByID(db.I, db.U[uuid])]

\* one iteration of the loop of DB.Select
SelectOne(acc, aliveMessage, checkMaxActive, uuid, ioOK, t) ==
    IF acc.panic THEN acc
    ELSE IF uuid \notin DOMAIN acc.db.U
    THEN [acc EXCEPT !.missing = @ \cup {uuid}]
    ELSE LET record == acc.db.U[uuid]
             r == UpdateLastRetrieval(record, aliveMessage, checkMaxActive, t)
             shared == ShareAliveMessages(acc.db, uuid, r.rec.AliveMessages)
             dead == {<<uuid, ip>> : ip \in DeadHosts(record, t)}
         IN IF r.panic
            THEN [acc EXCEPT !.db = shared, !.swept = @ \cup dead, !.panic = TRUE]
            ELSE IF r.ok
            THEN [acc EXCEPT !.db = upsert(shared, r.rec, ioOK),
                             !.found = @ \cup {uuid},
                             !.swept = @ \cup dead]
            ELSE [acc EXCEPT !.db = shared,
                             !.rejected = @ \cup {uuid},
                             !.swept = @ \cup dead]

RECURSIVE SelectLoop(_, _, _, _, _, _)
SelectLoop(acc, aliveMessage, checkMaxActive, uuids, ioOK, t) ==
    IF uuids = <<>> THEN acc
    ELSE SelectLoop(SelectOne(acc, aliveMessage, checkMaxActive, Head(uuids), ioOK, t),
                    aliveMessage, checkMaxActive, Tail(uuids), ioOK, t)

Select(db, aliveMessage, checkMaxActive, uuids, ioOK, t) ==
    SelectLoop([db |-> db, found |-> {}, rejected |-> {}, missing |-> {},
                swept |-> {}, panic |-> FALSE],
               aliveMessage, checkMaxActive, uuids, ioOK, t)

\* one iteration of the loop of DB.UpdateAliveMessage
AliveOne(acc, latest, uuid) ==
    IF acc.panic THEN acc
    ELSE IF uuid \notin DOMAIN acc.db.U
    THEN [acc EXCEPT !.rejected = @ \cup {uuid}]
    ELSE LET r == UpdateAliveMessage(acc.db.U[uuid], latest)
         IN IF r.panic THEN [acc EXCEPT !.panic = TRUE]
            ELSE IF r.ok
            THEN [acc EXCEPT !.db = ShareAliveMessages(acc.db, uuid, r.rec.AliveMessages),
                             !.accepted = @ \cup {uuid}]
            ELSE [acc EXCEPT !.db = ShareAliveMessages(acc.db, uuid, r.rec.AliveMessages),
                             !.rejected = @ \cup {uuid}]

RECURSIVE AliveLoop(_, _, _)
AliveLoop(acc, latest, uuids) ==
    IF uuids = <<>> THEN acc
    ELSE AliveLoop(AliveOne(acc, latest, Head(uuids)), latest, Tail(uuids))

DBUpdateAliveMessage(db, latest, uuids) ==
    AliveLoop([db |-> db, accepted |-> {}, rejected |-> {}, panic |-> FALSE], latest, uuids)

\* askForKeyContent through the embedded KMIP server: HandleGetRequest looks
\* the id up, KMIPClient.GetKey wants a key of the full length
askForKeyContent(db, kmipID, kmipOK) ==
    IF kmipOK /\ kmipID \in DOMAIN db.I /\ db.I[kmipID].Key # NoKey
    THEN db.I[kmipID].Key ELSE NoKey

\* the key fetch of the retrieval handlers: one Get per granted record
KeysFetched(db, found, kmipOK) ==
    \A uuid \in found : askForKeyContent(db, db.U[uuid].ID, kmipOK) # NoKey

\* ------------------------------------------------------------------ init
\* NewCryptServer on an empty key database directory; the password
\* parameters are whatever the sysconfig file holds
Init ==
    /\ Config \in [PasswordHash : {ZeroHash, GoodHash}, PasswordSalt : {ZeroHash, 1}]
    /\ RecordsByUUID = EmptyMap
    /\ RecordsByID = EmptyMap
    /\ LastSequenceNum = 0
    /\ now = 0
    /\ crashed = FALSE
    /\ inflight = NoRequest
    /\ last = Plain("start", <<>>, "")
    /\ assigned = <<>>
    /\ issued = 0
    /\ delivered = {}
    /\ Listener = "open"
    /\ acceptLoop = "running"
    /\ conns = [c \in ConnIDs |-> NoConn]
    /\ kmip = NoCall
    /\ wire = NoFrame
    /\ unlock = NotStarted
    /\ tasks = NoTasks
    /\ disk = EmptyMap

SetDB(db) ==
    /\ RecordsByUUID' = db.U
    /\ RecordsByID' = db.I

\* ------------------------------------------------------------- the clock
Tick ==
    /\ ~crashed
    /\ UNCHANGED <<assigned, others>>
    /\ now < MaxTime
    /\ now' = now + 1
    /\ last' = Plain("Tick", <<>>, "")
    /\ UNCHANGED <<Config, RecordsByUUID, RecordsByID, LastSequenceNum, crashed, inflight>>

\* ------------------------------------------------------------------ Ping
Ping(pass) ==
    /\ ~crashed
    /\ UNCHANGED <<assigned, others>>
    /\ last' = Plain("Ping", <<pass>>, IF ValidatePassword(Config, pass) # ""
                                       THEN ValidatePassword(Config, pass)
                                       ELSE CheckInitialSetup(Config))
    /\ UNCHANGED <<Config, RecordsByUUID, RecordsByID, LastSequenceNum, now, crashed, inflight>>

\* ------------------------------------------------------------- CreateKey
\* CreateKeyReq.Validate (the mount point is never empty here)
ValidateCreateKeyReq(uuid) == IF uuid = "" THEN "Validation" ELSE ""

\* CreateKey up to the return of KMIPClient.CreateKey: the embedded server's
\* HandleCreateRequest upserts a blank record under a fresh sequence id
CreateKeyBegin(pass, uuid, maxActive, aliveIntervalSec, aliveCount, kmipOK, ioOK) ==
    /\ ~crashed
    /\ UNCHANGED others
    /\ assigned' = IF ValidatePassword(Config, pass) = "" /\ ValidateCreateKeyReq(uuid) = "" /\ kmipOK
                   THEN Append(assigned, AssignID(LastSequenceNum))
                   ELSE assigned
    /\ inflight = NoRequest
    /\ UNCHANGED <<Config, now, crashed>>
    /\ IF ValidatePassword(Config, pass) # ""
       THEN /\ last' = Plain("CreateKey", <<pass>>, ValidatePassword(Config, pass))
            /\ UNCHANGED <<RecordsByUUID, RecordsByID, LastSequenceNum, inflight>>
       ELSE IF ValidateCreateKeyReq(uuid) # ""
       THEN /\ last' = Plain("CreateKey", <<pass>>, ValidateCreateKeyReq(uuid))
            /\ UNCHANGED <<RecordsByUUID, RecordsByID, LastSequenceNum, inflight>>
       ELSE IF ~kmipOK
       THEN /\ last' = Event("CreateKey", "", <<pass>>, <<uuid>>, "Backend",
                             {}, {}, {}, {}, {}, {})
            /\ UNCHANGED <<RecordsByUUID, RecordsByID, LastSequenceNum, inflight>>
       ELSE /\ LastSequenceNum < MaxSeq
            /\ LastSequenceNum' = AssignID(LastSequenceNum)
            /\ LET id == AssignID(LastSequenceNum)
                   blank == [BlankRecord(uuid, id) EXCEPT !.ID = id]
               IN IF ioOK
                  THEN /\ SetDB(upsert(DBState, blank, TRUE))
                       /\ inflight' = [pc |-> "get", pass |-> pass, uuid |-> uuid,
                                       MaxActive |-> maxActive,
                                       AliveIntervalSec |-> aliveIntervalSec,
                                       AliveCount |-> aliveCount, id |-> id]
                       /\ last' = Event("CreateKeyBegin", "", <<pass>>, <<uuid>>, "",
                                        {}, {}, {}, {}, {}, {})
                  ELSE /\ last' = Event("CreateKey", "", <<pass>>, <<uuid>>, "Backend",
                                        {}, {}, {}, {}, {}, {})
                       /\ UNCHANGED <<RecordsByUUID, RecordsByID, inflight>>

\* keyRecord, found = KeyDB.GetByID(kmipKeyID)
CreateKeyGet ==
    /\ ~crashed
    /\ UNCHANGED <<assigned, others>>
    /\ inflight.pc = "get"
    /\ UNCHANGED <<Config, RecordsByUUID, RecordsByID, LastSequenceNum, now, crashed>>
    /\ IF inflight.id \in DOMAIN RecordsByID
       THEN /\ inflight' = [pc |-> "upsert", pass |-> inflight.pass,
                            uuid |-> inflight.uuid,
                            MaxActive |-> inflight.MaxActive,
                            AliveIntervalSec |-> inflight.AliveIntervalSec,
                            AliveCount |-> inflight.AliveCount, id |-> inflight.id,
                            keyRecord |-> [GetByID(DBState, inflight.id)
                                              EXCEPT !.AliveMessages = EmptyMap]]
            /\ last' = Event("CreateKeyGet", "", <<inflight.pass>>, <<inflight.uuid>>, "",
                             {}, {}, {}, {}, {}, {})
       ELSE /\ inflight' = NoRequest
            /\ last' = Event("CreateKey", "", <<inflight.pass>>, <<inflight.uuid>>,
                             "Disappeared", {}, {}, {}, {}, {}, {})

\* the record CreateKey completes: every attribute of the request is set on
\* the copy GetByID gave; the copy's alive messages are the map it shares
\* with the database while the record is there
CompletedRecord(req, db) ==
    [req.keyRecord EXCEPT !.ID = req.id, !.UUID = req.uuid,
                          !.MaxActive = req.MaxActive,
                          !.AliveIntervalSec = req.AliveIntervalSec,
                          !.AliveCount = req.AliveCount,
                          !.AliveMessages = IF req.id \in DOMAIN db.I
                                            THEN db.I[req.id].AliveMessages ELSE @]

\* KeyDB.Upsert(keyRecord), then askForKeyContent and the reply
CreateKeyComplete(kmipOK, ioOK) ==
    /\ ~crashed
    /\ UNCHANGED <<assigned, others>>
    /\ inflight.pc = "upsert"
    /\ UNCHANGED <<Config, LastSequenceNum, now, crashed>>
    /\ inflight' = NoRequest
    /\ LET rec == CompletedRecord(inflight, DBState)
           db == upsert(DBState, rec, ioOK)
           key == askForKeyContent(db, inflight.id, kmipOK)
       IN /\ SetDB(db)
          /\ last' = Event("CreateKey", "", <<inflight.pass>>, <<inflight.uuid>>,
                           IF ~ioOK THEN "DB" ELSE IF key = NoKey THEN "Backend" ELSE "",
                           IF ioOK THEN {inflight.uuid} ELSE {},
                           IF ioOK /\ key # NoKey THEN {inflight.uuid} ELSE {},
                           {}, {}, {}, {})

\* ------------------------------------------------------------- retrieval
\* the reply of AutoRetrieveKey / ManualRetrieveKey once Select has run
RetrievalReply(op, ip, pass, uuids, sel, kmipOK) ==
    IF KeysFetched(sel.db, sel.found, kmipOK)
    THEN Event(op, ip, pass, uuids, "", sel.found, sel.found, sel.rejected, sel.missing,
               sel.swept, {})
    ELSE Event(op, ip, pass, uuids, "Backend", sel.found, {}, {}, {}, sel.swept, {})

AutoRetrieveKey(ip, hostname, uuids, kmipOK, ioOK) ==
    /\ ~crashed
    /\ UNCHANGED <<assigned, others>>
    /\ UNCHANGED <<Config, LastSequenceNum, now, inflight>>
    /\ LET requester == AliveMessage(hostname, ip, now)
           sel == Select(DBState, requester, TRUE, uuids, ioOK, now)
       IN /\ SetDB(sel.db)
          /\ crashed' = sel.panic
          /\ last' = IF sel.panic THEN Panicked("AutoRetrieveKey", ip, <<>>, uuids)
                     ELSE RetrievalReply("AutoRetrieveKey", ip, <<>>, uuids, sel, kmipOK)

ManualRetrieveKey(ip, hostname, pass, uuids, kmipOK, ioOK) ==
    /\ ~crashed
    /\ UNCHANGED <<assigned, others>>
    /\ UNCHANGED <<Config, LastSequenceNum, now, inflight>>
    /\ IF ValidatePassword(Config, pass) # ""
       THEN /\ last' = Plain("ManualRetrieveKey", <<pass>>, ValidatePassword(Config, pass))
            /\ UNCHANGED <<RecordsByUUID, RecordsByID, crashed>>
       ELSE LET requester == AliveMessage(hostname, ip, now)
                sel == Select(DBState, requester, FALSE, uuids, ioOK, now)
            IN /\ SetDB(sel.db)
               /\ crashed' = sel.panic
               /\ last' = IF sel.panic THEN Panicked("ManualRetrieveKey", ip, <<pass>>, uuids)
                          ELSE RetrievalReply("ManualRetrieveKey", ip, <<pass>>, uuids,
                                              [sel EXCEPT !.rejected = {}], kmipOK)

\* ----------------------------------------------------------- ReportAlive
ReportAlive(ip, hostname, uuids) ==
    /\ ~crashed
    /\ UNCHANGED <<assigned, others>>
    /\ UNCHANGED <<Config, LastSequenceNum, now, inflight>>
    /\ LET requester == AliveMessage(hostname, ip, now)
           upd == DBUpdateAliveMessage(DBState, requester, uuids)
       IN /\ SetDB(upd.db)
          /\ crashed' = upd.panic
          /\ last' = IF upd.panic THEN Panicked("ReportAlive", ip, <<>>, uuids)
                     ELSE Event("ReportAlive", ip, <<>>, uuids, "", upd.accepted, {},
                                upd.rejected, {}, {},
                                {u \in Range(uuids) \cap DOMAIN RecordsByUUID :
                                    /\ ip \in DOMAIN RecordsByUUID[u].AliveMessages
                                    /\ ~IsHostAlive(RecordsByUUID[u], ip, now)})

\* -------------------------------------------------------------- EraseKey
\* KMIPClient.DestroyKey against the embedded server: HandleDestroyRequest
\* only looks the id up
DestroyKey(db, kmipID, kmipOK) ==
    IF kmipOK /\ kmipID \in DOMAIN db.I THEN "" ELSE "Backend"

\* variant: erasing what is not there is an error
NotFoundReply_Error(pass, uuid) ==
    Event("EraseKey", "", <<pass>>, <<uuid>>, "NotFound", {}, {}, {}, {uuid}, {}, {})

\* the reply of EraseKey when GetByUUID finds nothing
NotFoundReply(pass, uuid) ==
    Event("EraseKey", "", <<pass>>, <<uuid>>, "", {}, {}, {}, {uuid}, {}, {})

EraseKey(pass, uuid, kmipOK, ioOK) ==
    /\ ~crashed
    /\ UNCHANGED <<assigned, others>>
    /\ UNCHANGED <<Config, LastSequenceNum, now, crashed>>
    /\ IF ValidatePassword(Config, pass) # ""
       THEN /\ last' = Plain("EraseKey", <<pass>>, ValidatePassword(Config, pass))
            /\ UNCHANGED <<RecordsByUUID, RecordsByID, inflight>>
       ELSE IF uuid \notin DOMAIN RecordsByUUID
       THEN /\ last' = NotFoundReply(pass, uuid)
            /\ UNCHANGED <<RecordsByUUID, RecordsByID, inflight>>
       ELSE LET rec == RecordsByUUID[uuid]
                kmipErr == DestroyKey(DBState, rec.ID, kmipOK)
                dbErr == IF ioOK THEN "" ELSE "DB"
            IN /\ SetDB(Erase(DBState, uuid))
               \* a CreateKey that holds a copy of the erased record keeps its map
               /\ inflight' = IF inflight.pc = "upsert" /\ inflight.id = rec.ID
                              THEN [inflight EXCEPT !.keyRecord.AliveMessages = rec.AliveMessages]
                              ELSE inflight
               /\ last' = Event("EraseKey", "", <<pass>>, <<uuid>>,
                                IF dbErr = "" /\ kmipErr # "" THEN "Compound" ELSE dbErr,
                                {uuid}, {}, {}, {}, {}, {})

\* ------------------------------------------------------------------ next
\* the fields of a request that cannot matter are not enumerated: a request
\* the password check refuses is refused whatever else it carries
Authorised(pass) == ValidatePassword(Config, pass) = ""

Next ==
    \/ Tick
    \/ \E pass \in Hashes : Ping(pass)
    \/ \E pass \in Hashes :
        \E uuid \in IF Authorised(pass) THEN NewUUIDs ELSE {"u1"},
           kmipOK \in IF Authorised(pass) THEN BOOLEAN ELSE {TRUE} :
          \E ioOK \in IF Authorised(pass) /\ uuid # "" /\ kmipOK THEN BOOLEAN ELSE {TRUE} :
            \E maxActive \in IF Authorised(pass) /\ uuid # "" /\ kmipOK /\ ioOK
                             THEN MaxActiveChoices ELSE {0},
               aliveIntervalSec \in AliveIntervalChoices,
               aliveCount \in IF Authorised(pass) /\ uuid # "" /\ kmipOK /\ ioOK
                              THEN AliveCountChoices ELSE {0} :
              CreateKeyBegin(pass, uuid, maxActive, aliveIntervalSec, aliveCount, kmipOK, ioOK)
    \/ CreateKeyGet
    \/ \E kmipOK \in BOOLEAN, ioOK \in BOOLEAN : CreateKeyComplete(kmipOK, ioOK)
    \/ \E ip \in IPs, hostname \in Hostnames, uuids \in UUIDLists,
          kmipOK \in BOOLEAN, ioOK \in BOOLEAN :
            AutoRetrieveKey(ip, hostname, uuids, kmipOK, ioOK)
    \/ \E pass \in Hashes :
        \E ip \in IF Authorised(pass) THEN IPs ELSE {"ip1"},
           hostname \in Hostnames,
           uuids \in IF Authorised(pass) THEN UUIDLists ELSE {<<"u1">>},
           kmipOK \in IF Authorised(pass) THEN BOOLEAN ELSE {TRUE},
           ioOK \in IF Authorised(pass) THEN BOOLEAN ELSE {TRUE} :
            ManualRetrieveKey(ip, hostname, pass, uuids, kmipOK, ioOK)
    \/ \E ip \in IPs, hostname \in Hostnames, uuids \in UUIDLists :
            ReportAlive(ip, hostname, uuids)
    \/ \E pass \in Hashes :
        \E uuid \in IF Authorised(pass) THEN UUIDs ELSE {"u1"},
           kmipOK \in IF Authorised(pass) THEN BOOLEAN ELSE {TRUE},
           ioOK \in IF Authorised(pass) THEN BOOLEAN ELSE {TRUE} :
            EraseKey(pass, uuid, kmipOK, ioOK)

Spec == Init /\ [][Next]_vars

\* ---------------------------------------------------------- vocabulary
\* the holders of a record: the hosts its alive messages name
Holders(rec) == DOMAIN rec.AliveMessages

\* the holders whose latest message is within the timeout at time t
LiveHolders(rec, t) == {ip \in Holders(rec) : IsHostAlive(rec, ip, t)}

\* the record has a cap and as many holders as the cap allows
Full(rec) == rec.MaxActive > 0 /\ Cardinality(Holders(rec)) = rec.MaxActive

WithinCap(rec) == rec.MaxActive > 0 => Cardinality(Holders(rec)) <= rec.MaxActive

\* -------------------------------------------------------------------- C1
\* C1 as the specification states it, for the step that follows a successful
\* automatic retrieval: a record with max_active = k > 0 whose key the reply
\* just handed out has at most k non-expired holders after the next
\* operation, whatever that operation is.
C1_AsStated ==
    [][\A u \in UUIDs :
          ( /\ last.op = "AutoRetrieveKey" /\ u \in last.granted
            /\ u \in DOMAIN RecordsByUUID /\ u \in DOMAIN RecordsByUUID'
            /\ RecordsByUUID[u].MaxActive > 0
            /\ RecordsByUUID'[u].MaxActive = RecordsByUUID[u].MaxActive )
          => Cardinality(LiveHolders(RecordsByUUID'[u], now')) <= RecordsByUUID'[u].MaxActive
      ]_vars

\* C1, amended: an automatic retrieval that the database accepts for a
\* record with max_active = k > 0 leaves the record with at most k holders,
\* expired or not; and a record with max_active = k > 0 and at most k
\* holders still has at most max_active holders after every step that is
\* neither a manual retrieval of that record nor a step of CreateKey (which
\* writes max_active).  The non-expired holders are among the holders.
C1_CapHolds ==
    [][\A u \in UUIDs :
          /\ ( /\ last'.op = "AutoRetrieveKey" /\ u \in last'.selected )
             => /\ WithinCap(RecordsByUUID'[u])
                /\ LiveHolders(RecordsByUUID'[u], now') \subseteq Holders(RecordsByUUID'[u])
          /\ ( /\ u \in DOMAIN RecordsByUUID /\ u \in DOMAIN RecordsByUUID'
               /\ RecordsByUUID[u].MaxActive > 0
               /\ WithinCap(RecordsByUUID[u])
               /\ ~(last'.op = "ManualRetrieveKey" /\ u \in last'.selected)
               /\ last'.op \notin {"CreateKeyBegin", "CreateKeyGet", "CreateKey"} )
             => /\ RecordsByUUID'[u].MaxActive = RecordsByUUID[u].MaxActive
                /\ WithinCap(RecordsByUUID'[u])
      ]_vars

\* an automatic retrieval has just been granted for a record with a cap of
\* one, and the requester is its only holder
C1_Witness ==
    /\ last.op = "AutoRetrieveKey" /\ "u1" \in last.granted
    /\ "u1" \in DOMAIN RecordsByUUID
    /\ RecordsByUUID["u1"].MaxActive = 1
    /\ Holders(RecordsByUUID["u1"]) = {last.ip}

\* -------------------------------------------------------------------- C2
\* C2: an automatic retrieval that names a record with max_active > 0 whose
\* non-expired holders (the holders left once the expired ones are removed)
\* number max_active or more is not accepted for that record and returns no
\* key for it, and the reply lists the uuid as rejected; the requester may
\* itself be one of the holders.
C2_FullIsRejected ==
    [][last'.op = "AutoRetrieveKey" =>
          \A u \in Range(last'.uuids) \cap DOMAIN RecordsByUUID :
             ( /\ RecordsByUUID[u].MaxActive > 0
               /\ Cardinality(LiveHolders(RecordsByUUID[u], now)) >= RecordsByUUID[u].MaxActive )
             => /\ u \notin last'.selected
                /\ u \notin last'.granted
                /\ last'.err = "" => u \in last'.rejected
                /\ Holders(RecordsByUUID'[u]) = LiveHolders(RecordsByUUID[u], now)
      ]_vars

\* a host that holds the key of a record with a cap of one has just asked
\* for it again and was rejected
C2_Witness ==
    /\ last.op = "AutoRetrieveKey" /\ last.rejected = {"u1"} /\ last.granted = {}
    /\ "u1" \in DOMAIN RecordsByUUID
    /\ RecordsByUUID["u1"].MaxActive = 1
    /\ Holders(RecordsByUUID["u1"]) = {last.ip}

PasswordOps == {"Ping", "CreateKey", "CreateKeyBegin", "CreateKeyGet",
                "ManualRetrieveKey", "EraseKey"}

\* the password parameters are both set
Initialised == Config.PasswordHash # ZeroHash /\ Config.PasswordSalt # ZeroHash

\* C5: Ping, CreateKey, ManualRetrieveKey and EraseKey called with a hash
\* that differs from the configured one return an error and no key, and
\* leave the records (holder sets and key material included, in both
\* indexes), the sequence allocator and the request in progress as they were.
C5_WrongHashRefused ==
    [][(last'.op \in PasswordOps /\ last'.pass # <<Config.PasswordHash>>) =>
          /\ last'.err # ""
          /\ last'.granted = {} /\ last'.selected = {}
          /\ UNCHANGED <<RecordsByUUID, RecordsByID, LastSequenceNum, inflight>>
      ]_vars

\* a manual retrieval with a wrong hash has just been refused while the
\* record it asked for is there, key and all
C5_Witness ==
    /\ last.op = "ManualRetrieveKey" /\ last.err = "BadPassword"
    /\ last.pass # <<Config.PasswordHash>>
    /\ "u1" \in DOMAIN RecordsByUUID
    /\ RecordsByUUID["u1"].Key # NoKey
    /\ last.granted = {}

C7_StrangerRejected ==
    [][last'.op = "ReportAlive" =>
          \A u \in Range(last'.uuids) :
             ( u \notin DOMAIN RecordsByUUID \/ last'.ip \notin Holders(RecordsByUUID[u]) )
             => /\ last'.err = "" => (u \in last'.rejected /\ u \notin last'.selected)
                /\ u \in DOMAIN RecordsByUUID =>
                     /\ u \in DOMAIN RecordsByUUID'
                     /\ RecordsByUUID'[u] = RecordsByUUID[u]
                     /\ RecordsByID'[RecordsByUUID[u].ID] = RecordsByID[RecordsByUUID[u].ID]
                /\ u \notin DOMAIN RecordsByUUID => u \notin DOMAIN RecordsByUUID'
      ]_vars

\* a host that is not a holder has just reported alive for a record that
\* has a holder, and was rejected
C7_Witness ==
    /\ last.op = "ReportAlive" /\ last.rejected = {"u1"}
    /\ "u1" \in DOMAIN RecordsByUUID
    /\ Holders(RecordsByUUID["u1"]) # {}
    /\ last.ip \notin Holders(RecordsByUUID["u1"])

\* -------------------------------------------------------------------- C8
\* C8 as the specification states it: every holder of every record has a
\* non-empty sequence of at most alive_count alive messages, its own, in
\* arrival order.
C8_AsStated ==
    \A u \in DOMAIN RecordsByUUID :
       \A ip \in Holders(RecordsByUUID[u]) :
          LET beats == RecordsByUUID[u].AliveMessages[ip]
          IN /\ Len(beats) >= 1
             /\ Len(beats) <= RecordsByUUID[u].AliveCount
             /\ \A i \in 1..Len(beats) : beats[i].IP = ip
             /\ \A i \in 1..Len(beats), j \in 1..Len(beats) :
                   i <= j => beats[i].Timestamp <= beats[j].Timestamp

\* a record that CreateKey completed with alive_count = 0 has a holder, whose
\* sequence has one message
C8_Witness ==
    /\ "u1" \in DOMAIN RecordsByUUID
    /\ inflight = NoRequest
    /\ RecordsByUUID["u1"].AliveCount = 0
    /\ \E ip \in Holders(RecordsByUUID["u1"]) :
          Len(RecordsByUUID["u1"].AliveMessages[ip]) = 1

C10_NotInitialised ==
    /\ CheckInitialSetup(Config) # "" <=> ~Initialised
    /\ (~Initialised /\ last.op \in PasswordOps) =>
          /\ last.err # ""
          /\ last.granted = {}
          /\ RecordsByUUID = EmptyMap

\* the configured hash is all-zero and a Ping that supplied the all-zero
\* hash has just been refused
C10_Witness ==
    /\ Config.PasswordHash = ZeroHash
    /\ last.op = "Ping" /\ last.pass = <<ZeroHash>>
    /\ last.err = "NotInitialized"

\* ------------------------------------------------------------------- C11
\* The server with requests that differ in the hostname they carry: the
\* password parameters are set, the administrator knows the password, and
\* neither the KMIP server nor the disk fails.
InitHost == Init /\ Initialised

NextHost ==
    \/ Tick
    \/ \E maxActive \in MaxActiveChoices, aliveIntervalSec \in AliveIntervalChoices,
          aliveCount \in AliveCountChoices :
            CreateKeyBegin(GoodHash, "u1", maxActive, aliveIntervalSec, aliveCount, TRUE, TRUE)
    \/ CreateKeyGet
    \/ CreateKeyComplete(TRUE, TRUE)
    \/ \E ip \in IPs, hostname \in TwoHostnames, uuids \in UUIDLists :
            AutoRetrieveKey(ip, hostname, uuids, TRUE, TRUE)
    \/ \E ip \in IPs, hostname \in TwoHostnames, uuids \in UUIDLists :
            ManualRetrieveKey(ip, hostname, GoodHash, uuids, TRUE, TRUE)
    \/ \E ip \in IPs, hostname \in TwoHostnames, uuids \in UUIDLists :
            ReportAlive(ip, hostname, uuids)

SpecHost == InitHost /\ [][NextHost]_vars

\* the holders of every record of a database
HolderSets(db) == [uuid \in DOMAIN db.U |-> Holders(db.U[uuid])]

MaxSeqDB == 2        \* ids the sequence allocator gives out in SpecDB
MaxCommands == 2     \* commands the administrator issues in SpecDB

\* PendingCommandMount, PendingCommandUmount
Contents == {"mount", "umount"}
\* Validity in seconds: one that runs out within MaxTime, one that does not
Validities == {1, MaxTime + 1}
Results == {"ok"}

\* Serial is not a field of the struct: it tells apart two commands that
\* are equal field by field, and nothing but the claims reads it
PendingCommand(validFrom, validity, ip, content, serial) ==
    [ValidFrom |-> validFrom, Validity |-> validity, IP |-> ip, Content |-> content,
     SeenByClient |-> FALSE, ClientResult |-> "", Serial |-> serial]

\* variant: a command is still valid in the second it runs out
IsValid_Inclusive(cmd, t) == cmd.ValidFrom + cmd.Validity >= t

\* cmd.ValidFrom.Add(cmd.Validity).Unix() > time.Now().Unix()
IsValid(cmd, t) == cmd.ValidFrom + cmd.Validity > t

remainingCommands(commands, t) == SelectSeq(commands, LAMBDA cmd : IsValid(cmd, t))

\* variant: a bucket left without a command stays in the map
RemoveExpiredPendingCommands_KeepsBuckets(rec, t) ==
    [rec EXCEPT !.PendingCommands =
        [ip \in DOMAIN rec.PendingCommands |-> remainingCommands(rec.PendingCommands[ip], t)]]

RemoveExpiredPendingCommands(rec, t) ==
    LET kept == {ip \in DOMAIN rec.PendingCommands :
                    Len(remainingCommands(rec.PendingCommands[ip], t)) > 0}
    IN [rec EXCEPT !.PendingCommands =
           [ip \in kept |-> remainingCommands(rec.PendingCommands[ip], t)]]

AddPendingCommand(rec, ip, cmd, t) ==
    LET swept == RemoveExpiredPendingCommands(rec, t)
        bucket == IF ip \in DOMAIN swept.PendingCommands
                  THEN swept.PendingCommands[ip] ELSE <<>>
    IN [swept EXCEPT !.PendingCommands = MapPut(@, ip, Append(bucket, cmd))]

\* like AliveMessages, the PendingCommands map of a Record value is held by
\* reference: the entries of both indexes are one map
SharePendingCommands(db, uuid, pc) ==
    LET id == db.U[uuid].ID
    IN [U |-> [db.U EXCEPT ![uuid].PendingCommands = pc],
        I |-> IF id \in DOMAIN db.I /\ db.I[id].UUID = uuid
              THEN [db.I EXCEPT ![id].PendingCommands = pc] ELSE db.I]

MarkSeen(commands, content) ==
    [i \in DOMAIN commands |->
        IF commands[i].Content = content
        THEN [commands[i] EXCEPT !.SeenByClient = TRUE] ELSE commands[i]]

AttachResult(commands, content, result) ==
    [i \in DOMAIN commands |->
        IF commands[i].Content = content
        THEN [commands[i] EXCEPT !.SeenByClient = TRUE, !.ClientResult = result]
        ELSE commands[i]]

\* variant: the flag is never written
UpdateSeenFlag_Forgets(db, uuid, ip, content) == db

\* DB.UpdateSeenFlag(uuid, ip, content)
UpdateSeenFlag(db, uuid, ip, content) ==
    IF uuid \notin DOMAIN db.U THEN db
    ELSE IF ip \notin DOMAIN db.U[uuid].PendingCommands THEN db
    ELSE SharePendingCommands(db, uuid,
            [db.U[uuid].PendingCommands EXCEPT ![ip] = MarkSeen(@, content)])

\* variant: the result goes to the command with that content in every bucket
UpdateCommandResult_AnyIP(db, uuid, ip, content, result, t) ==
    IF uuid \notin DOMAIN db.U THEN db
    ELSE LET swept == RemoveExpiredPendingCommands(db.U[uuid], t).PendingCommands
         IN SharePendingCommands(db, uuid,
               [b \in DOMAIN swept |-> AttachResult(swept[b], content, result)])

\* DB.UpdateCommandResult(uuid, ip, content, result): the expired commands
\* go first, then the result is attached
UpdateCommandResult(db, uuid, ip, content, result, t) ==
    IF uuid \notin DOMAIN db.U THEN db
    ELSE LET swept == RemoveExpiredPendingCommands(db.U[uuid], t).PendingCommands
         IN SharePendingCommands(db, uuid,
               IF ip \in DOMAIN swept
               THEN [swept EXCEPT ![ip] = AttachResult(@, content, result)]
               ELSE swept)

RECURSIVE SeenLoop(_, _, _, _)
SeenLoop(db, uuid, ip, cmds) ==
    IF cmds = <<>> THEN db
    ELSE SeenLoop(UpdateSeenFlag(db, uuid, ip, Head(cmds).Content), uuid, ip, Tail(cmds))

\* one iteration of the loop of PollCommand over the uuids of the request
PollOne(acc, ip, uuid, t) ==
    IF uuid \notin DOMAIN acc.db.U THEN acc
    ELSE LET pc == acc.db.U[uuid].PendingCommands
             fresh == IF ip \in DOMAIN pc
                      THEN SelectSeq(pc[ip], LAMBDA cmd : IsValid(cmd, t) /\ ~cmd.SeenByClient)
                      ELSE <<>>
         IN IF fresh = <<>> THEN acc
            ELSE [db |-> SeenLoop(acc.db, uuid, ip, fresh),
                  commands |-> MapPut(acc.commands, uuid, fresh)]

RECURSIVE PollLoop(_, _, _, _)
PollLoop(acc, ip, uuids, t) ==
    IF uuids = <<>> THEN acc
    ELSE PollLoop(PollOne(acc, ip, Head(uuids), t), ip, Tail(uuids), t)

\* ----------------------------------------------- the database on its own
\* The step just taken on the database.  returned: PollCommandResp.Commands
DBEvent(op, ip, uuids, content, result, returned) ==
    [op |-> op, ip |-> ip, uuids |-> uuids, content |-> content, result |-> result,
     returned |-> returned]

\* the record of db_test.go: one user at a time, one alive message kept
NewRecord(uuid, key) ==
    [BlankRecord(uuid, key) EXCEPT !.MaxActive = 1, !.AliveIntervalSec = 1,
                                        !.AliveCount = 1]

\* DB.Upsert of a record that arrives without an id, as HandleCreateRequest
\* and the tests do it
DoUpsert(uuid) ==
    /\ ~crashed
    /\ LastSequenceNum < MaxSeqDB
    /\ LastSequenceNum' = AssignID(LastSequenceNum)
    /\ assigned' = Append(assigned, AssignID(LastSequenceNum))
    /\ SetDB(upsert(DBState, [NewRecord(uuid, AssignID(LastSequenceNum)) EXCEPT !.ID = AssignID(LastSequenceNum)], TRUE))
    /\ last' = DBEvent("Upsert", "", <<>>, "", "", EmptyMap)
    /\ UNCHANGED <<Config, now, crashed, inflight, others>>

DoSelect(ip, uuids, checkMaxActive) ==
    /\ ~crashed
    /\ LET sel == Select(DBState, AliveMessage("h1", ip, now), checkMaxActive, uuids, TRUE, now)
       IN /\ SetDB(sel.db)
          /\ crashed' = sel.panic
    /\ last' = DBEvent("Select", "", <<>>, "", "", EmptyMap)
    /\ UNCHANGED <<Config, LastSequenceNum, now, inflight, assigned, others>>

DoUpdateAliveMessage(ip, uuids) ==
    /\ ~crashed
    /\ LET upd == DBUpdateAliveMessage(DBState, AliveMessage("h1", ip, now), uuids)
       IN /\ SetDB(upd.db)
          /\ crashed' = upd.panic
    /\ last' = DBEvent("UpdateAliveMessage", "", <<>>, "", "", EmptyMap)
    /\ UNCHANGED <<Config, LastSequenceNum, now, inflight, assigned, others>>

DoErase(uuid) ==
    /\ ~crashed
    /\ uuid \in DOMAIN RecordsByUUID
    /\ SetDB(Erase(DBState, uuid))
    /\ last' = DBEvent("Erase", "", <<>>, "", "", EmptyMap)
    /\ UNCHANGED <<Config, LastSequenceNum, now, crashed, inflight, assigned, others>>

\* the administrator queues a command for a host: GetByUUID,
\* Record.AddPendingCommand, Upsert
DoAddPendingCommand(uuid, ip, content, validity) ==
    /\ ~crashed
    /\ issued < MaxCommands
    /\ uuid \in DOMAIN RecordsByUUID
    /\ issued' = issued + 1
    /\ LET cmd == PendingCommand(now, validity, ip, content, issued + 1)
           rec == AddPendingCommand(RecordsByUUID[uuid], ip, cmd, now)
       IN SetDB(upsert(SharePendingCommands(DBState, uuid, rec.PendingCommands), rec, TRUE))
    /\ last' = DBEvent("AddPendingCommand", ip, <<uuid>>, content, "", EmptyMap)
    /\ UNCHANGED <<Config, LastSequenceNum, now, crashed, inflight, assigned, delivered, apart>>

\* the commands of a PollCommandResp, by their Serial
Serials(returned) ==
    UNION {{returned[uuid][i].Serial : i \in 1..Len(returned[uuid])} : uuid \in DOMAIN returned}

\* CryptServiceConn.PollCommand
PollCommand(ip, uuids) ==
    /\ ~crashed
    /\ LET polled == PollLoop([db |-> DBState, commands |-> EmptyMap], ip, uuids, now)
       IN /\ SetDB(polled.db)
          /\ last' = DBEvent("PollCommand", ip, uuids, "", "", polled.commands)
          /\ delivered' = delivered \cup Serials(polled.commands)
    /\ UNCHANGED <<Config, LastSequenceNum, now, crashed, inflight, assigned, issued, apart>>

\* CryptServiceConn.SaveCommandResult
SaveCommandResult(ip, uuid, content, result) ==
    /\ ~crashed
    /\ SetDB(UpdateCommandResult(DBState, uuid, ip, content, result, now))
    /\ last' = DBEvent("SaveCommandResult", ip, <<uuid>>, content, result, EmptyMap)
    /\ UNCHANGED <<Config, LastSequenceNum, now, crashed, inflight, assigned, others>>

\* DB.UpdateSeenFlag and DB.UpdateCommandResult called on their own, as
\* TestDB_UpdateSeenFlag does
DoUpdateSeenFlag(uuid, ip, content) ==
    /\ ~crashed
    /\ SetDB(UpdateSeenFlag(DBState, uuid, ip, content))
    /\ last' = DBEvent("UpdateSeenFlag", "", <<>>, "", "", EmptyMap)
    /\ UNCHANGED <<Config, LastSequenceNum, now, crashed, inflight, assigned, others>>

DoUpdateCommandResult(uuid, ip, content, result) ==
    /\ ~crashed
    /\ SetDB(UpdateCommandResult(DBState, uuid, ip, content, result, now))
    /\ last' = DBEvent("UpdateCommandResult", "", <<>>, "", "", EmptyMap)
    /\ UNCHANGED <<Config, LastSequenceNum, now, crashed, inflight, assigned, others>>

InitDB == Init /\ Initialised

\* the operations of the database in any order, at one moment: records come
\* and go under both uuids, and commands of one kind are queued
NextDB ==
    \/ \E uuid \in UUIDs : DoUpsert(uuid)
    \/ \E ip \in IPs, uuids \in UUIDLists, checkMaxActive \in BOOLEAN :
          DoSelect(ip, uuids, checkMaxActive)
    \/ \E ip \in IPs, uuids \in UUIDLists : DoUpdateAliveMessage(ip, uuids)
    \/ \E uuid \in UUIDs : DoErase(uuid)
    \/ \E uuid \in UUIDs, ip \in IPs :
          DoAddPendingCommand(uuid, ip, "mount", MaxTime + 1)
    \/ \E uuid \in UUIDs, ip \in IPs : DoUpdateSeenFlag(uuid, ip, "mount")
    \/ \E uuid \in UUIDs, ip \in IPs, result \in Results :
          DoUpdateCommandResult(uuid, ip, "mount", result)

SpecDB == InitDB /\ [][NextDB]_vars

\* the pending commands of the record of one uuid as time passes: the
\* administrator queues commands, the hosts poll and report results
NextCmd ==
    \/ Tick
    \/ DoUpsert("u1")
    \/ \E ip \in IPs, content \in Contents, validity \in Validities :
          DoAddPendingCommand("u1", ip, content, validity)
    \/ \E ip \in IPs, uuids \in UUIDLists : PollCommand(ip, uuids)
    \/ \E ip \in IPs, uuid \in UUIDs, content \in Contents, result \in Results :
          SaveCommandResult(ip, uuid, content, result)

SpecCmd == InitDB /\ [][NextCmd]_vars

\* ------------------------------------------------------------------- C12
\* C12: across any sequence of Upserts and Erases the ids given to records
\* that arrive without one are positive integers (the numbers their decimal
\* strings denote) in strictly increasing order, so no id is given twice,
\* erased or not; and the allocator is never behind an id it has given.
C12_IdsIncrease ==
    /\ \A i \in 1..Len(assigned) : assigned[i] > 0 /\ assigned[i] <= LastSequenceNum
    /\ \A i \in 1..Len(assigned), j \in 1..Len(assigned) :
          i < j => assigned[i] < assigned[j]

\* a second id has just been given out after the record that held the first
\* one was erased
C12_Witness ==
    /\ last.op = "Upsert"
    /\ Len(assigned) = 2
    /\ assigned[1] \notin DOMAIN RecordsByID
    /\ assigned[2] \in DOMAIN RecordsByID

\* ------------------------------------------------------------------- C13
\* C13: the by-uuid index and the by-id index hold the same records with the
\* same contents: every record under a uuid is the record under its id, and
\* every record under an id is the record under its uuid (so there is at
\* most one record per uuid and per id).
C13_AsStated ==
    /\ \A uuid \in DOMAIN RecordsByUUID :
          /\ RecordsByUUID[uuid].UUID = uuid
          /\ RecordsByUUID[uuid].ID \in DOMAIN RecordsByID
          /\ RecordsByID[RecordsByUUID[uuid].ID] = RecordsByUUID[uuid]
    /\ \A id \in DOMAIN RecordsByID :
          /\ RecordsByID[id].ID = id
          /\ RecordsByID[id].UUID \in DOMAIN RecordsByUUID
          /\ RecordsByUUID[RecordsByID[id].UUID] = RecordsByID[id]

\* a uuid was upserted again without an id: the by-uuid index holds the new
\* record and the by-id index holds the new and the old one, two records
\* of one uuid
C13_Witness ==
    /\ last.op = "Upsert"
    /\ \E uuid \in DOMAIN RecordsByUUID, id \in DOMAIN RecordsByID :
          /\ RecordsByID[id].UUID = uuid
          /\ RecordsByUUID[uuid].ID # id
          /\ RecordsByUUID[uuid].ID \in DOMAIN RecordsByID

\* ------------------------------------------------------------------- C14
\* a command is valid iff now < valid_from + validity
StillValid(cmd, t) == t < cmd.ValidFrom + cmd.Validity

\* the commands of a reply for a uuid: a uuid with none is not in the map
ReturnedFor(returned, uuid) == IF uuid \in DOMAIN returned THEN returned[uuid] ELSE <<>>

\* the commands queued in a database for a host under a uuid
Bucket(db, uuid, ip) ==
    IF uuid \in DOMAIN db.U /\ ip \in DOMAIN db.U[uuid].PendingCommands
    THEN db.U[uuid].PendingCommands[ip] ELSE <<>>

\* C14: PollCommand returns for each uuid it names exactly the commands of
\* that record queued for the requester's IP that are still valid and not
\* yet seen, in their order (none that is expired, seen, or addressed to
\* another IP, and nothing for a uuid it did not name), and every command
\* it returns is marked seen in the database afterwards.
C14_PollReturnsFresh ==
    [][last'.op = "PollCommand" =>
        \A uuid \in UUIDs :
           LET got == ReturnedFor(last'.returned, uuid)
               after == Bucket([U |-> RecordsByUUID', I |-> RecordsByID'], uuid, last'.ip)
           IN /\ got = IF uuid \in Range(last'.uuids)
                       THEN SelectSeq(Bucket(DBState, uuid, last'.ip),
                                      LAMBDA cmd : StillValid(cmd, now) /\ ~cmd.SeenByClient)
                       ELSE <<>>
              /\ \A i \in 1..Len(got) :
                    /\ got[i].IP = last'.ip
                    /\ \E j \in 1..Len(after) :
                          after[j].Serial = got[i].Serial /\ after[j].SeenByClient
      ]_vars

\* a poll has just returned one of the two commands queued for its IP: the
\* other one had run out
C14_Witness ==
    /\ last.op = "PollCommand"
    /\ \E uuid \in DOMAIN last.returned :
          /\ Len(last.returned[uuid]) = 1
          /\ Len(Bucket(DBState, uuid, last.ip)) = 2
          /\ \E j \in 1..2 : ~StillValid(Bucket(DBState, uuid, last.ip)[j], now)

\* ------------------------------------------------------------------- C15
\* C15: a command PollCommand has returned once is in the reply of no later
\* PollCommand: no poll returns a command that an earlier poll delivered,
\* and a command stays seen once a poll has marked it.
C15_DeliveredOnce ==
    [][/\ last'.op = "PollCommand" => Serials(last'.returned) \cap delivered = {}
       /\ \A uuid \in DOMAIN RecordsByUUID, ip \in IPs :
             \A i \in 1..Len(Bucket(DBState, uuid, ip)) :
                LET cmd == Bucket(DBState, uuid, ip)[i]
                    after == Bucket([U |-> RecordsByUUID', I |-> RecordsByID'], uuid, ip)
                IN cmd.SeenByClient =>
                      \A j \in 1..Len(after) :
                         after[j].Serial = cmd.Serial => after[j].SeenByClient
      ]_vars

\* the host a command was delivered to has polled again while the command
\* is still queued for it and valid, and got nothing
C15_Witness ==
    /\ last.op = "PollCommand"
    /\ last.returned = EmptyMap
    /\ \E uuid \in Range(last.uuids) :
          \E i \in 1..Len(Bucket(DBState, uuid, last.ip)) :
             LET cmd == Bucket(DBState, uuid, last.ip)[i]
             IN cmd.Serial \in delivered /\ StillValid(cmd, now) /\ cmd.ClientResult = ""

\* ------------------------------------------------------------------- C16
\* what SaveCommandResult makes of a command it matches
WithResult(cmd, result) == [cmd EXCEPT !.SeenByClient = TRUE, !.ClientResult = result]

\* C16: after SaveCommandResult(uuid, content, result) from an IP, every
\* command still queued is a command that was queued before, unchanged
\* unless it is in the bucket of that IP under that uuid and has that
\* content, and then it carries the result and is seen; every valid command
\* that matched is still queued (so it carries the result); with no match no
\* command differs from what it was; and the same request made again at
\* once changes nothing.
C16_ResultAttached ==
    [][last'.op = "SaveCommandResult" =>
        LET dbAfter == [U |-> RecordsByUUID', I |-> RecordsByID']
            uuid == last'.uuids[1]
        IN /\ \A u \in DOMAIN RecordsByUUID', b \in IPs :
                 \A j \in 1..Len(Bucket(dbAfter, u, b)) :
                    LET a == Bucket(dbAfter, u, b)[j]
                    IN \E i \in 1..Len(Bucket(DBState, u, b)) :
                          LET cmd == Bucket(DBState, u, b)[i]
                          IN /\ cmd.Serial = a.Serial
                             /\ a = IF u = uuid /\ b = last'.ip /\ cmd.Content = last'.content
                                    THEN WithResult(cmd, last'.result) ELSE cmd
           /\ \A i \in 1..Len(Bucket(DBState, uuid, last'.ip)) :
                 LET cmd == Bucket(DBState, uuid, last'.ip)[i]
                 IN cmd.Content = last'.content /\ StillValid(cmd, now) =>
                       \E j \in 1..Len(Bucket(dbAfter, uuid, last'.ip)) :
                          Bucket(dbAfter, uuid, last'.ip)[j].Serial = cmd.Serial
           /\ UpdateCommandResult(dbAfter, uuid, last'.ip, last'.content, last'.result, now')
                 = dbAfter
      ]_vars

\* a result has just been saved: the command of the reporting host carries
\* it, the command with the same content queued for another host does not
C16_Witness ==
    /\ last.op = "SaveCommandResult"
    /\ \E b \in IPs \ {last.ip} :
          /\ \E i \in 1..Len(Bucket(DBState, last.uuids[1], last.ip)) :
                LET cmd == Bucket(DBState, last.uuids[1], last.ip)[i]
                IN /\ cmd.Content = last.content
                   /\ cmd.ClientResult = last.result /\ cmd.SeenByClient
          /\ \E i \in 1..Len(Bucket(DBState, last.uuids[1], b)) :
                LET cmd == Bucket(DBState, last.uuids[1], b)[i]
                IN /\ cmd.Content = last.content
                   /\ cmd.ClientResult = "" /\ ~cmd.SeenByClient

\* ------------------------------------------------------------------- C17
\* C17: after a command is added to a record, or a result is saved for it,
\* the record holds no command whose valid_from + validity lies in the past
\* (but for the command just added, which is appended after the sweep),
\* under any target IP, and no bucket without a command.
C17_ExpiredSwept ==
    [][(last'.op \in {"AddPendingCommand", "SaveCommandResult"}
        /\ last'.uuids[1] \in DOMAIN RecordsByUUID') =>
        LET pc == RecordsByUUID'[last'.uuids[1]].PendingCommands
        IN \A b \in DOMAIN pc :
              /\ Len(pc[b]) > 0
              /\ \A i \in 1..Len(pc[b]) :
                    \/ pc[b][i].ValidFrom + pc[b][i].Validity >= now'
                    \/ (last'.op = "AddPendingCommand" /\ pc[b][i].Serial = issued')
      ]_vars

\* the one command queued for the record has run out and a SaveCommandResult
\* has left the record without a bucket
C17_Witness ==
    /\ last.op = "SaveCommandResult"
    /\ issued = 1 /\ assigned = <<1>>
    /\ last.uuids[1] \in DOMAIN RecordsByUUID
    /\ RecordsByUUID[last.uuids[1]].PendingCommands = EmptyMap
    /\ now = MaxTime

\* ------------------------------------------------- listener and shutdown
\* NewCryptServer draws AdminChallenge at random; a request carries it or
\* carries something else
AdminChallenge == "admin"
Challenges == {"admin", "guess"}

\* the one RPC a client makes on a connection: Shutdown with a challenge,
\* or a call that needs no credential
Requests == [op : {"Shutdown"}, challenge : Challenges]
               \cup {[op |-> "GetSalt", challenge |-> ""]}

\* variant: any challenge will do
ChallengeAccepted_Any(challenge) == TRUE

\* subtle.ConstantTimeCompare(rpcConn.Svc.AdminChallenge, req.Challenge) == 1
ChallengeAccepted(challenge) == challenge = AdminChallenge

\* the database and the key handlers stand still in SpecRPC
ServerAtRest ==
    UNCHANGED <<Config, RecordsByUUID, RecordsByID, LastSequenceNum, now, crashed,
                inflight, last, assigned, issued, delivered, kmip, aside>>

\* a client dials (CryptClient.DoRPC): the connection waits to be accepted
\* while the listener is open, and is refused once it is closed
Dial(c, req) ==
    /\ conns[c].pc = "none"
    /\ conns' = [conns EXCEPT ![c] =
                    [pc |-> IF Listener = "open" THEN "dialed" ELSE "failed", req |-> req]]
    /\ UNCHANGED <<Listener, acceptLoop>>
    /\ ServerAtRest

\* HandleConnections: Accept returns a connection, a goroutine serves it
Accept(c) ==
    /\ acceptLoop = "running"
    /\ Listener = "open"
    /\ conns[c].pc = "dialed"
    /\ conns' = [conns EXCEPT ![c].pc = "accepted"]
    /\ UNCHANGED <<Listener, acceptLoop>>
    /\ ServerAtRest

\* HandleConnections: Accept returns an error, the loop returns
AcceptFails ==
    /\ acceptLoop = "running"
    /\ Listener = "closed"
    /\ acceptLoop' = "returned"
    /\ UNCHANGED <<Listener, conns>>
    /\ ServerAtRest

\* the error of the handler a connection's request names
HandlerError(req) ==
    IF req.op = "Shutdown"
    THEN IF ~ChallengeAccepted(req.challenge) THEN "incorrect challenge"
         ELSE IF Listener = "closed" THEN "use of closed network connection"
         ELSE ""
    ELSE ""

\* the goroutine of an accepted connection: ServeConn runs the handler and
\* the reply goes out; a Shutdown that passes the challenge closes the
\* listener, and the connections still waiting to be accepted are reset
ServeConn(c) ==
    /\ conns[c].pc = "accepted"
    /\ LET req == conns[c].req
           closes == req.op = "Shutdown" /\ ChallengeAccepted(req.challenge)
       IN /\ Listener' = IF closes THEN "closed" ELSE Listener
          /\ conns' = [d \in ConnIDs |->
                         IF d = c
                         THEN [pc |-> "replied", req |-> req, err |-> HandlerError(req),
                               servedWhile |-> Listener]
                         ELSE IF closes /\ conns[d].pc = "dialed"
                         THEN [conns[d] EXCEPT !.pc = "failed"]
                         ELSE conns[d]]
    /\ UNCHANGED acceptLoop
    /\ ServerAtRest

NextRPC ==
    \/ \E c \in ConnIDs, req \in Requests : Dial(c, req)
    \/ \E c \in ConnIDs : Accept(c)
    \/ AcceptFails
    \/ \E c \in ConnIDs : ServeConn(c)

SpecRPC == InitDB /\ [][NextRPC]_vars

\* each accepted connection has a goroutine of its own, which the scheduler
\* runs whatever the listener and the other connections do
SpecRPCFair == SpecRPC /\ \A c \in ConnIDs : WF_vars(ServeConn(c))

ClientMaxRetry == 7

\* what can go wrong in one attempt: tls.Dial, conn.Write, ReadFullTTLV
IOFailures == {"dial", "write", "read"}

\* the result status and reason of the batch item a server answers with
Responses == {[status |-> "Success", reason |-> ""],
              [status |-> "Failed", reason |-> "NotFound"],
              [status |-> "Failed", reason |-> "General"]}

Operations == {"Create", "Get", "Destroy"}

\* no response has been read
NoResponse == [status |-> "", reason |-> ""]

\* variant: every attempt goes to the first server
Endpoint_First(i, n) == 0

\* client.ServerAddrs[i%len(client.ServerAddrs)]
Endpoint(i, n) == i % n

ResponseItemToError(resp) == IF resp.status = "Success" THEN "" ELSE "KMIP response error"

\* variant: the DestroyKey of the client with a single server address
KMIPClientDestroyKey_NotFoundOK(resp) ==
    IF resp.reason = "NotFound" \/ resp.status = "Success" THEN ""
    ELSE ResponseItemToError(resp)

\* KMIPClient.DestroyKey once MakeRequest has returned a response
KMIPClientDestroyKey(resp) == ResponseItemToError(resp)

\* the database, the key handlers and the listener stand still in SpecKMIP
ClientAlone ==
    UNCHANGED <<Config, RecordsByUUID, RecordsByID, LastSequenceNum, now, crashed,
                inflight, last, assigned, issued, delivered, Listener, acceptLoop, conns,
                aside>>

\* CreateKey, GetKey or DestroyKey calls MakeRequest, which enters the loop
\* of ConverseWithRetry with i = 0; n is len(client.ServerAddrs)
KMIPRequest(op, n) ==
    /\ kmip.pc \in {"idle", "done"}
    /\ kmip' = [pc |-> "dial", op |-> op, n |-> n, i |-> 0, slept |-> 0,
                dialled |-> <<>>, outcomes |-> <<>>, resp |-> NoResponse, err |-> ""]
    /\ ClientAlone

\* time.Sleep(1 * time.Second) at the top of an iteration with i > 0
KMIPSleep ==
    /\ kmip.pc = "sleep"
    /\ kmip' = [kmip EXCEPT !.pc = "dial", !.slept = @ + 1]
    /\ ClientAlone

\* one attempt fails: continue, and leave the loop once i reaches
\* ClientMaxRetry, returning the error of all attempts
KMIPAttemptFails(failure) ==
    /\ kmip.pc = "dial"
    /\ kmip' = [kmip EXCEPT !.dialled = Append(@, Endpoint(kmip.i, kmip.n)),
                            !.outcomes = Append(@, failure),
                            !.i = @ + 1,
                            !.pc = IF kmip.i + 1 < ClientMaxRetry THEN "sleep" ELSE "done",
                            !.err = IF kmip.i + 1 < ClientMaxRetry THEN ""
                                    ELSE "ultimately failed in all attempts"]
    /\ ClientAlone

\* one attempt gets a response: ConverseWithRetry returns it, and the caller
\* turns the response into its own result
KMIPAttemptAnswered(resp) ==
    /\ kmip.pc = "dial"
    /\ kmip' = [kmip EXCEPT !.dialled = Append(@, Endpoint(kmip.i, kmip.n)),
                            !.outcomes = Append(@, "ok"),
                            !.resp = resp,
                            !.pc = "done",
                            !.err = IF kmip.op = "Destroy" THEN KMIPClientDestroyKey(resp)
                                    ELSE ResponseItemToError(resp)]
    /\ ClientAlone

NextKMIP ==
    \/ \E op \in Operations, n \in 1..MaxEndpoints : KMIPRequest(op, n)
    \/ KMIPSleep
    \/ \E failure \in IOFailures : KMIPAttemptFails(failure)
    \/ \E resp \in Responses : KMIPAttemptAnswered(resp)

SpecKMIP == InitDB /\ [][NextKMIP]_vars

\* ------------------------------------------------------------------- C19
\* C19: a request of the KMIP client makes at most 7 attempts; attempt i
\* (from 0) goes to server i mod len(servers); the client has slept once
\* before every attempt but the first; it returns at the first attempt that
\* gets a response, with that response; and it returns the error of all
\* attempts exactly when 7 attempts have failed.
C19_Retry ==
    kmip.pc # "idle" =>
       LET made == Len(kmip.dialled)
           answered == made > 0 /\ kmip.outcomes[made] = "ok"
       IN /\ made <= ClientMaxRetry
          /\ Len(kmip.outcomes) = made
          /\ \A k \in 1..made : kmip.dialled[k] = (k - 1) % kmip.n
          /\ \A k \in 1..(made - 1) : kmip.outcomes[k] \in IOFailures
          /\ kmip.slept = IF kmip.pc = "dial" THEN made ELSE made - 1
          /\ kmip.pc = "done" =>
                /\ made >= 1
                /\ answered \/ made = ClientMaxRetry
                /\ kmip.err = "ultimately failed in all attempts" <=>
                      (made = ClientMaxRetry /\ ~answered)
          /\ kmip.pc # "done" => ~answered
          /\ IF answered THEN kmip.resp \in Responses ELSE kmip.resp = NoResponse

\* all 7 attempts at two servers have failed, the servers taken in turn, and
\* the request has returned the error after 6 sleeps
C19_Witness ==
    /\ kmip.pc = "done"
    /\ kmip.n = 2
    /\ kmip.dialled = <<0, 1, 0, 1, 0, 1, 0>>
    /\ kmip.slept = 6
    /\ kmip.err = "ultimately failed in all attempts"

TagBatchItem == <<66, 0, 15>>
TagUniqueID == <<66, 0, 148>>

\* the primitive items that are encoded: either sign, a text of no bytes, of
\* one byte and of a full block of 8, a time with and without nanoseconds
Primitives ==
    {Item("Integer", TagUniqueID, 0, 0, -1), Item("LongInteger", TagUniqueID, 0, 0, 2),
     Item("Enumeration", TagUniqueID, 0, 0, 3)}
    \cup {Item("Text", TagUniqueID, 0, 0, v) : v \in {<<>>, <<97>>, <<97, 98, 99, 100, 101, 102, 103, 104>>}}
    \cup {Item("Bytes", TagUniqueID, 0, 0, <<200>>)}
    \cup {Item("DateTime", TagUniqueID, 0, 0, v) : v \in {<<4, 0>>, <<-4, 500>>}}

\* the structures of at most MaxItems items drawn from S
StructuresOf(S) ==
    {Item("Structure", TagBatchItem, TypStruct, 0, items) : items \in SeqsUpTo(S, MaxItems)}

RECURSIVE ItemsOfDepth(_)
ItemsOfDepth(d) ==
    IF d = 0 THEN Primitives
    ELSE ItemsOfDepth(d - 1) \cup StructuresOf(ItemsOfDepth(d - 1))

Items == ItemsOfDepth(MaxDepth)

\* the four length bytes of the frames a peer may forge: 0, 65537,
\* 2^31 - 1, and with the sign bit set -2^31 and -1
ForgedLengths == {<<0, 0, 0, 0>>, <<0, 1, 0, 1>>, <<127, 255, 255, 255>>,
                  <<128, 0, 0, 0>>, <<255, 255, 255, 255>>}

Sides == {"server", "client"}

\* what the caller of ReadFullTTLV does with the result: HandleConnection on
\* the server, ConverseWithRetry and MakeRequest on the client
CallerEnd(side, r) ==
    IF side = "server"
    THEN IF r.err # "" THEN "IO failure logged"
         ELSE IF ~IsStructure(r.item) THEN "request not understood"
         ELSE "request handled"
    ELSE IF r.err # "" THEN "retry"
         ELSE IF ~IsStructure(r.item) THEN "failed to deserialise response"
         ELSE "response"

CodecAlone ==
    UNCHANGED <<Config, RecordsByUUID, RecordsByID, LastSequenceNum, now, crashed,
                inflight, last, assigned, issued, delivered, Listener, acceptLoop, conns,
                kmip, unlock, tasks, disk>>

Wire(pc, item, bytes, got, err, asked, side, end) ==
    [pc |-> pc, item |-> item, bytes |-> bytes, got |-> got, err |-> err,
     asked |-> asked, side |-> side, end |-> end]

\* a program builds an item
Construct(x) ==
    /\ wire.pc = "idle"
    /\ wire' = Wire("item", x, <<>>, NilItem, "", 0, "", "")
    /\ CodecAlone

\* EncodeAny(item): the bytes, and the TTL the encoder wrote into the item
DoEncodeAny ==
    /\ wire.pc = "item"
    /\ wire' = [wire EXCEPT !.pc = "frame", !.item = Measured(wire.item),
                            !.bytes = EncodeAny(wire.item)]
    /\ CodecAlone

\* a peer sends the header of a structure with a length of its choosing,
\* followed by one item
Forge(length) ==
    /\ wire.pc = "idle"
    /\ wire' = Wire("frame", NilItem,
                    TagBatchItem \o <<TypStruct>> \o length
                       \o EncodeAny(Item("Integer", TagUniqueID, 0, 0, 1)),
                    NilItem, "", 0, "", "")
    /\ CodecAlone

\* DecodeAny on the bytes EncodeAny produced
DoDecodeAny ==
    /\ wire.pc = "frame"
    /\ ~IsStructure(wire.item) => wire.item.kind # "nil"
    /\ LET d == DecodeAny(wire.bytes)
       IN wire' = [wire EXCEPT !.pc = "decoded", !.got = d.item, !.err = d.err]
    /\ CodecAlone

\* the frame arrives on a connection: ReadFullTTLV, then its caller
DoReadFullTTLV(side) ==
    /\ wire.pc = "frame"
    /\ LET r == ReadFullTTLV(wire.bytes)
       IN wire' = [wire EXCEPT !.pc = "read", !.got = r.item, !.err = r.err,
                               !.asked = r.asked, !.side = side,
                               !.end = CallerEnd(side, r)]
    /\ CodecAlone

NextTTLV ==
    \/ \E x \in Items : Construct(x)
    \/ DoEncodeAny
    \/ \E length \in ForgedLengths : Forge(length)
    \/ DoDecodeAny
    \/ \E side \in Sides : DoReadFullTTLV(side)

SpecTTLV == InitDB /\ [][NextTTLV]_vars

\* ------------------------------------------------------------------- C21
\* the length a frame declares in bytes 5 to 8 of its header, as a number
\* that is never negative
DeclaredLength(frame) ==
    IF frame[5] >= 128 THEN MaxKMIPStructLen + 1
    ELSE Accumulate(0, SubSeq(frame, 5, 8))

\* C21: when a frame whose header declares a length greater than 65,536
\* has been read from a connection, on the server or on the client,
\* ReadFullTTLV has returned an error to its caller.
C21_AsStated ==
    (wire.pc = "read" /\ DeclaredLength(wire.bytes) > MaxKMIPStructLen) => wire.err # ""

\* a frame that declares 65,537 bytes was read on the client: ReadFullTTLV
\* asked for none of them and returned no item and no error, so the client
\* does not retry and fails when it deserialises the response
C21_Witness ==
    /\ wire.pc = "read" /\ wire.side = "client"
    /\ DeclaredLength(wire.bytes) = MaxKMIPStructLen + 1
    /\ wire.asked = 0 /\ wire.got = NilItem /\ wire.err = ""
    /\ wire.end = "failed to deserialise response"

\* ------------------------------------------------------------------- C22
\* an item has a Text or Bytes of no bytes, or a Structure of no items
RECURSIVE HasEmptyValue(_)
HasEmptyValue(x) ==
    CASE x.kind \in {"Text", "Bytes"} -> x.Value = <<>>
      [] x.kind = "Structure" ->
            x.Value = <<>> \/ \E i \in DOMAIN x.Value : HasEmptyValue(x.Value[i])
      [] OTHER -> FALSE

\* the item with the nanoseconds of every DateTime set to 0
RECURSIVE WholeSeconds(_)
WholeSeconds(x) ==
    CASE x.kind = "DateTime" -> [x EXCEPT !.Value = <<x.Value[1], 0>>]
      [] x.kind = "Structure" ->
            [x EXCEPT !.Value = [i \in DOMAIN x.Value |-> WholeSeconds(x.Value[i])]]
      [] OTHER -> x

\* C22: DecodeAny on the bytes EncodeAny made of an item returns no error
\* and an item equal to the one encoded, and encoding the decoded item gives
\* the same bytes again.
C22_AsStated ==
    wire.pc = "decoded" =>
       /\ wire.err = ""
       /\ wire.got = wire.item
       /\ EncodeAny(wire.got) = wire.bytes

\* C22, amended: for an item in which every Text and Bytes has at least one
\* byte and every Structure at least one item, DecodeAny on the bytes
\* EncodeAny made returns no error and an item equal to the one encoded but
\* for the nanoseconds of its DateTimes, which are not encoded, and encoding
\* the decoded item gives the same bytes again; an item with an empty Text,
\* Bytes or Structure anywhere is encoded with a length of 0, which
\* DecodeAny refuses.
C22_RoundTrip ==
    wire.pc = "decoded" =>
       IF HasEmptyValue(wire.item)
       THEN wire.err = "Malformed" /\ wire.got = NilItem
       ELSE /\ wire.err = ""
            /\ wire.got = WholeSeconds(wire.item)
            /\ EncodeAny(wire.got) = wire.bytes

\* a structure that holds a structure that holds a text of 8 bytes and a
\* negative integer has come back from DecodeAny as it was
C22_Witness ==
    /\ wire.pc = "decoded" /\ wire.err = ""
    /\ wire.got = wire.item
    /\ IsStructure(wire.got) /\ Len(wire.got.Value) = 1
    /\ IsStructure(wire.got.Value[1]) /\ Len(wire.got.Value[1].Value) = 2
    /\ wire.got.Value[1].Value[1].kind = "Text" /\ wire.got.Value[1].Value[1].Length = 8
    /\ wire.got.Value[1].Value[2].Value = -1

\* ------------------------------------------------- automatic unlocking
AUTO_UNLOCK_RETRY_INTERVAL_SEC == 5

\* the longest retry window (maxRetrySec) given to AutoOnlineUnlockFS
MaxRetryWindow == 10

RetryWindows == {-1, 0, 5, MaxRetryWindow}

\* the seconds one AutoRetrieveKey call may take
CallSeconds == {0, 1}

\* what one AutoRetrieveKey call may return for the one uuid it names: an
\* error of DoRPC, or a reply that lists the uuid as granted, as rejected or
\* as missing, or a reply that lists it nowhere
CallOutcomes == {"error", "granted", "rejected", "missing", "nothing"}

\* variant: the routine gives up in the last second of the window already
GiveUp_Early(t, begin, maxRetrySec) == t >= begin + maxRetrySec

\* if time.Now().Unix() > begin+maxRetrySec
GiveUp(t, begin, maxRetrySec) == t > begin + maxRetrySec

UnlockAlone ==
    UNCHANGED <<Config, RecordsByUUID, RecordsByID, LastSequenceNum, now, crashed,
                inflight, last, assigned, issued, delivered, Listener, acceptLoop, conns,
                kmip, wire, tasks, disk>>

\* AutoOnlineUnlockFS finds the LUKS device and enters its loop; t is the
\* time in seconds since then, calls the history of the calls made: when
\* each was sent, when it returned, and what it returned
UnlockStart(maxRetrySec) ==
    /\ unlock.pc \in {"idle", "done"}
    /\ unlock' = [pc |-> "call", begin |-> 0, t |-> 0, maxRetrySec |-> maxRetrySec,
                  calls |-> <<>>, result |-> ""]
    /\ UnlockAlone

\* one pass of the loop from client.AutoRetrieveKey to the return or to
\* the sleep
UnlockCall(outcome, seconds) ==
    /\ unlock.pc = "call"
    /\ LET back == unlock.t + seconds
           call == [sent |-> unlock.t, back |-> back, outcome |-> outcome]
       IN unlock' =
            IF outcome = "granted"
            THEN [unlock EXCEPT !.pc = "done", !.t = back, !.calls = Append(@, call),
                                !.result = "UnlockFS"]
            ELSE IF outcome = "missing"
            THEN [unlock EXCEPT !.pc = "done", !.t = back, !.calls = Append(@, call),
                                !.result = "server does not have encryption key"]
            ELSE IF GiveUp(back, unlock.begin, unlock.maxRetrySec)
            THEN [unlock EXCEPT !.pc = "done", !.t = back, !.calls = Append(@, call),
                                !.result = "have given up"]
            ELSE [unlock EXCEPT !.pc = "sleep", !.t = back, !.calls = Append(@, call)]
    /\ UnlockAlone

\* time.Sleep(AUTO_UNLOCK_RETRY_INTERVAL_SEC * time.Second)
UnlockSleep ==
    /\ unlock.pc = "sleep"
    /\ unlock' = [unlock EXCEPT !.pc = "call", !.t = @ + AUTO_UNLOCK_RETRY_INTERVAL_SEC]
    /\ UnlockAlone

UnlockCallReturns == \E outcome \in CallOutcomes, seconds \in CallSeconds : UnlockCall(outcome, seconds)

NextUnlock ==
    \/ \E maxRetrySec \in RetryWindows : UnlockStart(maxRetrySec)
    \/ UnlockCallReturns
    \/ UnlockSleep

SpecUnlock == InitDB /\ [][NextUnlock]_vars

\* the routine runs on: every AutoRetrieveKey call returns, with a reply or
\* with an error, and every sleep ends
SpecUnlockFair == SpecUnlock /\ WF_vars(UnlockCallReturns) /\ WF_vars(UnlockSleep)

\* ------------------------------------------------------------------- C23
Failed(call) == call.outcome \in {"error", "rejected", "nothing"}

C24_UnlimitedNeverRejected ==
    [][last'.op = "AutoRetrieveKey" =>
          \A u \in Range(last'.uuids) \cap DOMAIN RecordsByUUID :
             RecordsByUUID[u].MaxActive <= 0 =>
                /\ u \notin last'.rejected
                /\ u \in last'.selected
                /\ last'.err = "" => u \in last'.granted
                /\ last'.ip \in Holders(RecordsByUUID'[u])
                /\ \A maxActive \in {-2, -1, 0}, ip \in IPs :
                      UpdateLastRetrieval([RecordsByUUID[u] EXCEPT !.MaxActive = maxActive],
                                          AliveMessage("h1", ip, now), TRUE, now).ok
      ]_vars

\* an automatic retrieval has just been granted for a record with
\* max_active = 0 that another host holds and is alive for
C24_Witness ==
    /\ last.op = "AutoRetrieveKey" /\ "u1" \in last.granted
    /\ RecordsByUUID["u1"].MaxActive = 0
    /\ inflight = NoRequest
    /\ Cardinality(LiveHolders(RecordsByUUID["u1"], now)) = 2

\* ------------------------------------------------------------------- C27
\* C27: an AutoRetrieveKey or ManualRetrieveKey that returns the error of
\* the key fetch has changed no record's holders and no record's last
\* retrieval.
C27_AsStated ==
    [][(last'.op \in {"AutoRetrieveKey", "ManualRetrieveKey"} /\ last'.err = "Backend") =>
          \A u \in DOMAIN RecordsByUUID :
             /\ u \in DOMAIN RecordsByUUID'
             /\ Holders(RecordsByUUID'[u]) = Holders(RecordsByUUID[u])
             /\ RecordsByUUID'[u].LastRetrieval = RecordsByUUID[u].LastRetrieval
      ]_vars

\* an automatic retrieval has just returned the error of the key fetch, and
\* the requester, who got no key, is the holder of the record's only slot
C27_Witness ==
    /\ last.op = "AutoRetrieveKey" /\ last.err = "Backend" /\ last.granted = {}
    /\ "u1" \in DOMAIN RecordsByUUID
    /\ RecordsByUUID["u1"].MaxActive = 1
    /\ Holders(RecordsByUUID["u1"]) = {last.ip}
    /\ RecordsByUUID["u1"].LastRetrieval.IP = last.ip

EraseWithFailedDestroy(u, kmipOK, ioOK) ==
    /\ Initialised
    /\ u \in DOMAIN RecordsByUUID
    /\ DestroyKey(DBState, RecordsByUUID[u].ID, kmipOK) # ""
    /\ EraseKey(Config.PasswordHash, u, kmipOK, ioOK)

LockAlone ==
    UNCHANGED <<Config, crashed, inflight, last, issued, delivered, Listener, acceptLoop,
                conns, kmip, wire, unlock, disk>>

\* the calls the goroutines may make, all about the record "u1": both hosts
\* retrieve its key, the second with the password too, and the first reports
\* that it is alive
Calls(t) ==
    {Call("Upsert", "", "u1", FALSE, 0), Call("Erase", "", "u1", FALSE, 0),
     Call("Select", "ip1", "u1", TRUE, t), Call("Select", "ip2", "u1", TRUE, t),
     Call("Select", "ip2", "u1", FALSE, t), Call("UpdateAliveMessage", "ip1", "u1", FALSE, t)}

\* the body of an operation, from the records it looked up to the records
\* it leaves and what it returns, at time t
Body(st, op, t) ==
    CASE op.name = "Upsert" ->
           LET id == AssignID(st.seq)
           IN [db |-> upsert(st.db, [NewRecord(op.uuid, id) EXCEPT !.ID = id], TRUE),
               seq |-> id, result |-> NoResult]
      [] op.name = "Select" ->
           LET sel == Select(st.db, AliveMessage("h1", op.ip, op.ts), op.checkMaxActive,
                             <<op.uuid>>, TRUE, t)
           IN [db |-> sel.db, seq |-> st.seq,
               result |-> Returned(sel.found, sel.rejected, sel.missing, "")]
      [] op.name = "UpdateAliveMessage" ->
           LET upd == DBUpdateAliveMessage(st.db, AliveMessage("h1", op.ip, op.ts),
                                           <<op.uuid>>)
           IN [db |-> upd.db, seq |-> st.seq,
               result |-> Returned(upd.accepted, upd.rejected, {}, "")]
      [] op.name = "Erase" ->
           IF op.uuid \in DOMAIN st.db.U
           THEN [db |-> Erase(st.db, op.uuid), seq |-> st.seq, result |-> NoResult]
           ELSE [db |-> st.db, seq |-> st.seq, result |-> Returned({}, {}, {}, "NotExist")]

\* variant: Lock() returns at once, held or not
LockIsFree_Always(t) == TRUE

\* sync.RWMutex.Lock returns when no goroutine holds the lock
LockIsFree(t) == t.lock = 0

Upserting(p) == tasks.g[p].op.name = "Upsert"

\* the goroutines that have called an operation and not returned from it
Called == {q \in Goroutines : tasks.g[q].pc # "idle"}

\* the record has exactly one free slot: its holders within their timeout
\* are one fewer than max_active
OneFreeSlot(db, uuid, t) ==
    /\ uuid \in DOMAIN db.U
    /\ db.U[uuid].MaxActive > 0
    /\ Cardinality(LiveHolders(db.U[uuid], t)) = db.U[uuid].MaxActive - 1

\* a handler calls an operation of the database; the handlers are alike, so
\* the call goes to the first goroutine that is free
Enter(p, op) ==
    /\ tasks.g[p].pc = "idle"
    /\ \A q \in 1..(p - 1) : tasks.g[q].pc # "idle"
    /\ op.name = "Upsert" =>
          LastSequenceNum + Cardinality({q \in Goroutines : Upserting(q)}) < MaxSeqDB
    /\ tasks' = [tasks EXCEPT !.g[p] = [pc |-> "waiting", op |-> op, seen |-> EmptyStore]]
    /\ UNCHANGED <<RecordsByUUID, RecordsByID, LastSequenceNum, now, assigned>>
    /\ LockAlone

\* db.Lock.Lock() returns and the operation looks its records up:
\* record, exists := db.Records[uuid]
Lock(p) ==
    /\ tasks.g[p].pc = "waiting"
    /\ LockIsFree(tasks)
    /\ tasks' = [tasks EXCEPT !.lock = p,
                              !.order = Append(@, p),
                              !.g[p].pc = "locked",
                              !.g[p].seen = Store(DBState, LastSequenceNum)]
    /\ UNCHANGED <<RecordsByUUID, RecordsByID, LastSequenceNum, now, assigned>>
    /\ LockAlone

\* the operation changes the records it looked up, stores them and returns:
\* the deferred db.Lock.Unlock()
Return(p) ==
    /\ tasks.g[p].pc = "locked"
    /\ LET op == tasks.g[p].op
           r == Body(tasks.g[p].seen, op, now)
           s == Body(tasks.serial, op, now)
       IN /\ SetDB(r.db)
          /\ LastSequenceNum' = r.seq
          /\ assigned' = IF Upserting(p) THEN Append(assigned, r.seq) ELSE assigned
          /\ tasks' = [tasks EXCEPT
                          !.lock = 0,
                          !.order = SelectSeq(@, LAMBDA q : q # p),
                          !.serial = Store(s.db, s.seq),
                          !.prev = Prev([op EXCEPT !.ts = 0], r.result, s.result,
                                        OneFreeSlot(tasks.g[p].seen.db, op.uuid, now),
                                        Called \ {p}),
                          !.g[p] = Parked]
    /\ UNCHANGED now
    /\ LockAlone

NextLock ==
    \/ \E p \in Goroutines, op \in Calls(now) : Enter(p, op)
    \/ \E p \in Goroutines : Lock(p)
    \/ \E p \in Goroutines : Return(p)
    \/ Tick

SpecLock == InitDB /\ [][NextLock]_vars

\* ------------------------------------------------------------------- C25
\* C25: the operations are inside the database one at a time; the database,
\* and what the operation that returned last returned, are what the
\* operations give when they run one after the other in the order in which
\* they acquired the lock; and the records an operation looked up are not
\* changed by another before it stores them (an alive message is not lost
\* to, nor taken in the middle of, a Select).
C25_Serialised ==
    /\ Len(tasks.order) <= 1
    /\ Store(DBState, LastSequenceNum) = tasks.serial
    /\ tasks.prev.result = tasks.prev.expected
    /\ \A p \in Goroutines :
          tasks.g[p].pc = "locked" => tasks.g[p].seen = Store(DBState, LastSequenceNum)

\* a Select of ip2 and an alive message of the holder ip1 were called at
\* the same time; the Select got the lock first and was granted, and the
\* alive message, which waited, is now inside the database and sees ip2
C25_Witness ==
    /\ tasks.prev.op.name = "Select" /\ tasks.prev.op.ip = "ip2"
    /\ tasks.prev.result.found = {"u1"}
    /\ \E p \in tasks.prev.waiters :
          /\ tasks.lock = p
          /\ tasks.g[p].op.name = "UpdateAliveMessage"
          /\ tasks.g[p].seen.db = DBState
    /\ "u1" \in DOMAIN RecordsByUUID
    /\ Holders(RecordsByUUID["u1"]) = {"ip1", "ip2"}

\* ------------------------------------------------------------------- C26
\* goroutine p returns from an automatic retrieval that waited for the lock
\* while the automatic retrieval of another host, which found exactly one
\* free slot and was granted, was inside the database
SecondOfTwo(p) ==
    /\ Return(p)
    /\ tasks.g[p].op.name = "Select" /\ tasks.g[p].op.checkMaxActive
    /\ tasks.prev.op.name = "Select" /\ tasks.prev.op.checkMaxActive
    /\ tasks.prev.op.ip # tasks.g[p].op.ip
    /\ tasks.prev.op.uuid = tasks.g[p].op.uuid
    /\ p \in tasks.prev.waiters
    /\ tasks.prev.oneFree
    /\ tasks.prev.result.found # {}

\* C26: of two automatic retrievals by distinct hosts that are in the
\* database at the same time for a record with exactly one free slot, at
\* most one is granted.
C26_AsStated ==
    [][\A p \in Goroutines : SecondOfTwo(p) => tasks'.prev.result.found = {}]_vars

\* C26, amended: of two automatic retrievals by distinct hosts that are in
\* the database at the same time for a record with exactly one free slot,
\* at most one is granted, unless a holder of the record passes its timeout
\* after the first has run and before the second does; the second is then
\* granted the slot of that holder, and the holders within their timeout
\* are no more than max_active.
C26_OneSlotOneGrant ==
    [][\A p \in Goroutines :
          SecondOfTwo(p) =>
             LET uuid == tasks.g[p].op.uuid
             IN /\ uuid \in DOMAIN RecordsByUUID /\ uuid \in DOMAIN RecordsByUUID'
                /\ DeadHosts(RecordsByUUID[uuid], now) = {} =>
                      tasks'.prev.result.found = {}
                /\ Cardinality(LiveHolders(RecordsByUUID'[uuid], now))
                      <= RecordsByUUID'[uuid].MaxActive
      ]_vars

\* ip1 and ip2 asked for the key of a record with one free slot at the
\* same time; ip1 got the lock first and was granted, and ip2, which waited,
\* has just been rejected: ip1 is the only holder
C26_Witness ==
    /\ tasks.prev.op = Call("Select", "ip2", "u1", TRUE, 0)
    /\ tasks.prev.result.rejected = {"u1"}
    /\ tasks.prev.result.found = {}
    /\ tasks.lock = 0 /\ Called = {}
    /\ "u1" \in DOMAIN RecordsByUUID
    /\ Holders(RecordsByUUID["u1"]) = {"ip1"}
    /\ RecordsByUUID["u1"].LastRetrieval.IP = "ip1"
    /\ RecordsByUUID["u1"].LastRetrieval.Timestamp = now

\* ------------------------------------------------- the record files
\* Each record is kept in memory and in a file of the database directory
\* named by its uuid.  DB.upsert opens the file with O_TRUNC, writes the
\* serialised record, syncs if asked to, and only then stores the record in
\* db.Records; Erase deletes from db.Records and only then wipes the file.
DiskAlone ==
    UNCHANGED <<Config, inflight, issued, delivered, Listener, acceptLoop, conns, kmip,
                wire, unlock, tasks>>

\* how the file operations of one call end: "ok"; "open": OpenFile fails
\* and the file is as before; "write": Write fails after the file was
\* truncated; "sync": the record is written and Sync fails
WriteOutcomes == {"ok", "open", "write", "sync"}

\* a record file that was truncated or overwritten in part: no record
Torn == BlankRecord("", NoKey)

\* the files after upsert has tried to write rec
WriteFile(files, rec, io) ==
    CASE io \in {"ok", "sync"} -> MapPut(files, rec.UUID, rec)
      [] io = "write" -> MapPut(files, rec.UUID, Torn)
      [] OTHER -> files

RECURSIVE WriteFiles(_, _, _, _)
WriteFiles(files, recs, uuids, io) ==
    IF uuids = {} THEN files
    ELSE LET u == CHOOSE x \in uuids : TRUE
         IN WriteFiles(WriteFile(files, recs[u], io), recs, uuids \ {u}, io)

\* the files after fs.SecureErase(path, true) has tried to wipe one
EraseFile(files, uuid, io) ==
    CASE io = "ok" -> MapRestrict(files, (DOMAIN files) \ {uuid})
      [] io = "write" /\ uuid \in DOMAIN files -> MapPut(files, uuid, Torn)
      [] OTHER -> files

\* the step just taken on the database and how its file operations ended
DiskEvent(op, io) == DBEvent(op, "", <<>>, "", io, EmptyMap)

DiskUpsert(uuid, io) ==
    /\ ~crashed
    /\ LastSequenceNum < MaxSeqDB
    /\ LET id == AssignID(LastSequenceNum)
           rec == [NewRecord(uuid, id) EXCEPT !.ID = id]
       IN /\ LastSequenceNum' = id
          /\ assigned' = Append(assigned, id)
          /\ SetDB(upsert(DBState, rec, io = "ok"))
          /\ disk' = WriteFile(disk, rec, io)
    /\ last' = DiskEvent("Upsert", io)
    /\ UNCHANGED <<now, crashed>>
    /\ DiskAlone

DiskSelect(ip, uuids, checkMaxActive, io) ==
    /\ ~crashed
    /\ LET aliveMessage == AliveMessage("h1", ip, now)
           sel == Select(DBState, aliveMessage, checkMaxActive, uuids, io = "ok", now)
           written == [u \in sel.found |->
                          UpdateLastRetrieval(RecordsByUUID[u], aliveMessage,
                                              checkMaxActive, now).rec]
       IN /\ SetDB(sel.db)
          /\ crashed' = sel.panic
          /\ disk' = WriteFiles(disk, written, sel.found, io)
    /\ last' = DiskEvent("Select", io)
    /\ UNCHANGED <<LastSequenceNum, now, assigned>>
    /\ DiskAlone

\* upsert(record, false): there is no Sync to fail
DiskUpdateAliveMessage(ip, uuids, io) ==
    /\ ~crashed
    /\ io # "sync"
    /\ LET upd == DBUpdateAliveMessage(DBState, AliveMessage("h1", ip, now), uuids)
       IN /\ SetDB(upd.db)
          /\ crashed' = upd.panic
          /\ disk' = WriteFiles(disk, upd.db.U, upd.accepted, io)
    /\ last' = DiskEvent("UpdateAliveMessage", io)
    /\ UNCHANGED <<LastSequenceNum, now, assigned>>
    /\ DiskAlone

DiskErase(uuid, io) ==
    /\ ~crashed
    /\ io # "sync"
    /\ uuid \in DOMAIN RecordsByUUID
    /\ SetDB(Erase(DBState, uuid))
    /\ disk' = EraseFile(disk, uuid, io)
    /\ last' = DiskEvent("Erase", io)
    /\ UNCHANGED <<LastSequenceNum, now, crashed, assigned>>
    /\ DiskAlone

\* the operations on the record of one disk, as time passes
NextDisk ==
    \/ \E io \in WriteOutcomes : DiskUpsert("u1", io)
    \/ \E ip \in IPs, checkMaxActive \in BOOLEAN, io \in WriteOutcomes :
          DiskSelect(ip, <<"u1">>, checkMaxActive, io)
    \/ \E ip \in IPs, io \in WriteOutcomes : DiskUpdateAliveMessage(ip, <<"u1">>, io)
    \/ \E io \in WriteOutcomes : DiskErase("u1", io)
    \/ Tick

SpecDisk == InitDB /\ [][NextDisk]_vars

\* ------------------------------------------------------------------- C28
\* C28: after every operation of the database, failed writes included, the
\* records in memory and the record files are the same records, with the
\* same holders, alive messages and last retrieval.
C28_AsStated == disk = RecordsByUUID

\* a Select has just been granted to ip1 and could not open the record
\* file: in memory ip1 is a holder of the record, whose last retrieval is
\* still the one before, and the file knows nothing of ip1
C28_Witness ==
    /\ last.op = "Select" /\ last.result = "open"
    /\ "u1" \in DOMAIN RecordsByUUID /\ "u1" \in DOMAIN disk
    /\ "ip1" \in Holders(RecordsByUUID["u1"])
    /\ "ip1" \notin Holders(disk["u1"])
    /\ RecordsByUUID["u1"].LastRetrieval = disk["u1"].LastRetrieval
    /\ RecordsByUUID["u1"].LastRetrieval.IP # "ip1"

\* ------------------------------------------------------------------- C31
\* the record of the CreateKey in progress carries what the request gave
CarriesRequest(rec, req) ==
    /\ rec.MaxActive = req.MaxActive
    /\ rec.AliveIntervalSec = req.AliveIntervalSec
    /\ rec.AliveCount = req.AliveCount

\* C31: while a CreateKey for a uuid is in progress, an AutoRetrieveKey is
\* granted that uuid's key only if the record already carries the
\* max_active, alive_interval_sec and alive_count of the CreateKey request.
C31_AsStated ==
    [][(last'.op = "AutoRetrieveKey" /\ inflight # NoRequest
        /\ inflight.uuid \in last'.granted) =>
          CarriesRequest(RecordsByUUID[inflight.uuid], inflight)
      ]_vars

\* a CreateKey with max_active 1 is between the blank record of the KMIP
\* server and its own Upsert, and an AutoRetrieveKey has just been granted
\* the key of the blank record, which has no cap and no alive_count
C31_Witness ==
    /\ inflight # NoRequest /\ inflight.uuid = "u1" /\ inflight.MaxActive = 1
    /\ last.op = "AutoRetrieveKey" /\ last.granted = {"u1"}
    /\ "u1" \in DOMAIN RecordsByUUID
    /\ RecordsByUUID["u1"].MaxActive = 0
    /\ RecordsByUUID["u1"].AliveCount = 0
    /\ Holders(RecordsByUUID["u1"]) = {last.ip}

\* ------------------------------------------------------------------- C32
\* C32: every record that CreateKey stores has alive_interval_sec >= 1 and
\* alive_count >= 1.
C32_AsStated ==
    [][last'.op = "CreateKey" =>
          \A u \in last'.selected :
             /\ u \in DOMAIN RecordsByUUID'
             /\ RecordsByUUID'[u].AliveIntervalSec >= 1
             /\ RecordsByUUID'[u].AliveCount >= 1
      ]_vars

\* a CreateKey with alive_count 0 has just returned the key with no error,
\* and the record it stored has alive_count 0
C32_Witness ==
    /\ last.op = "CreateKey" /\ last.err = "" /\ last.granted = {"u1"}
    /\ "u1" \in DOMAIN RecordsByUUID
    /\ RecordsByUUID["u1"].AliveCount = 0
    /\ RecordsByUUID["u1"].AliveIntervalSec = 1
    /\ RecordsByUUID["u1"].Key # NoKey

\* ------------------------------------------------------------------- C33
\* C33: when the handler of a request panics, the server process keeps
\* running (only the connection is lost) and serves later requests.
C33_AsStated == last.err = "panic" => ~crashed

\* the handler of a ReportAlive has panicked on a record with alive_count 0
\* and the process is gone: no handler will run again
C33_Witness ==
    /\ last.op = "ReportAlive" /\ last.err = "panic"
    /\ crashed
    /\ \E u \in Range(last.uuids) :
          /\ u \in DOMAIN RecordsByUUID
          /\ RecordsByUUID[u].AliveCount = 0
          /\ last.ip \in Holders(RecordsByUUID[u])
    /\ ~ENABLED Next

\* ------------------------------------------- the embedded KMIP server
\* KMIPServer.HandleRequest for the three requests the server decodes.  The
\* server's PasswordChallenge is the random secret made by Listen; a request
\* carries a password, and the name of the key to create or the id of the
\* key to get or destroy.
KMIPServerAlone ==
    UNCHANGED <<Config, now, crashed, inflight, issued, delivered, Listener, acceptLoop,
                conns, kmip, aside>>

PasswordChallenge == 1
\* the passwords a KMIP client may present: none, the secret, another one
KMIPPasswords == {0, PasswordChallenge, 2}
\* the ids a Get or Destroy request may name
KMIPIDs == 1..(MaxSeqDB + 1)

\* variant: every password is taken
CheckPassword_Any(providedPass) == ""

\* KMIPServer.CheckPassword
CheckPassword(providedPass) ==
    IF providedPass = PasswordChallenge THEN "" ELSE "Mismatch"

\* what HandleRequest did with a request: the response it wrote on the
\* connection ("none" when it wrote nothing), the key material in it, the
\* id in it, and the error it returned
KMIPHandled(op, pass, arg, written, key, id, err) ==
    [op |-> op, pass |-> pass, arg |-> arg, written |-> written, key |-> key, id |-> id,
     err |-> err]

\* case *structure.SCreateRequest: the error of CheckPassword is the error
\* HandleRequest returns; HandleCreateRequest upserts a record with the
\* name and a new key
KMIPCreate(pass, keyName, ioOK) ==
    /\ LastSequenceNum < MaxSeqDB
    /\ LET err == CheckPassword(pass)
           id == AssignID(LastSequenceNum)
           rec == [BlankRecord(keyName, id) EXCEPT !.ID = id]
       IN IF err # ""
          THEN /\ last' = KMIPHandled("Create", pass, keyName, "none", NoKey, NoID, err)
               /\ UNCHANGED <<RecordsByUUID, RecordsByID, LastSequenceNum, assigned>>
          ELSE IF ~ioOK
          THEN /\ last' = KMIPHandled("Create", pass, keyName, "none", NoKey, NoID, "DB")
               /\ UNCHANGED <<RecordsByUUID, RecordsByID, LastSequenceNum, assigned>>
          ELSE /\ SetDB(upsert(DBState, rec, TRUE))
               /\ LastSequenceNum' = id
               /\ assigned' = Append(assigned, id)
               /\ last' = KMIPHandled("Create", pass, keyName, "Success", NoKey, id, "")
    /\ KMIPServerAlone

\* case *structure.SGetRequest and case *structure.SDestroyRequest: the
\* error of CheckPassword is a variable of the if statement alone, so after
\* a mismatch HandleRequest goes on with no error and no response, and
\* resp.SerialiseToTTLV() on the nil response panics; the deferred recover
\* turns that into the error returned.  HandleGetRequest and
\* HandleDestroyRequest look the id up and change nothing.
KMIPLookup(op, pass, id) ==
    /\ op \in {"Get", "Destroy"}
    /\ last' = IF CheckPassword(pass) # ""
               THEN KMIPHandled(op, pass, id, "none", NoKey, NoID, "panic")
               ELSE IF id \notin DOMAIN RecordsByID
               THEN KMIPHandled(op, pass, id, "NotFound", NoKey, NoID, "")
               ELSE KMIPHandled(op, pass, id, "Success",
                                IF op = "Get" THEN RecordsByID[id].Key ELSE NoKey, id, "")
    /\ UNCHANGED <<RecordsByUUID, RecordsByID, LastSequenceNum, assigned>>
    /\ KMIPServerAlone

NextKMIPServer ==
    \/ \E pass \in KMIPPasswords, keyName \in UUIDs, ioOK \in BOOLEAN :
          KMIPCreate(pass, keyName, ioOK)
    \/ \E op \in {"Get", "Destroy"}, pass \in KMIPPasswords, id \in KMIPIDs :
          KMIPLookup(op, pass, id)

SpecKMIPServer == InitDB /\ [][NextKMIPServer]_vars

\* ------------------------------------------------------------------- C34
\* C34: a Create, Get or Destroy request whose password is not the server's
\* secret gets no response, so no key material, and changes nothing in the
\* database; no key is created for it.
C34_SecretOnly ==
    [][last'.pass # PasswordChallenge =>
          /\ last'.written = "none" /\ last'.key = NoKey /\ last'.id = NoID
          /\ last'.err # ""
          /\ UNCHANGED <<RecordsByUUID, RecordsByID, LastSequenceNum>>
      ]_vars

\* a Get with another password for the id of a key that is there has just
\* been refused: nothing was written on the connection
C34_Witness ==
    /\ last.op = "Get" /\ last.pass = 2
    /\ last.arg \in DOMAIN RecordsByID
    /\ RecordsByID[last.arg].Key # NoKey
    /\ last.written = "none" /\ last.key = NoKey /\ last.err = "panic"

\* ------------------------------------------------------------------- C35
\* C35: a ReportAlive leaves the holders of every record it names as they
\* were, and for a record of which the reporter is a holder, silent beyond
\* the timeout or not, the message is accepted.
C35_AsStated ==
    [][last'.op = "ReportAlive" =>
          \A u \in Range(last'.uuids) \cap DOMAIN RecordsByUUID :
             /\ u \in DOMAIN RecordsByUUID'
             /\ Holders(RecordsByUUID'[u]) = Holders(RecordsByUUID[u])
             /\ last'.ip \in Holders(RecordsByUUID[u]) =>
                   /\ last'.err = ""
                   /\ u \in last'.selected
                   /\ u \notin last'.rejected
      ]_vars

\* the holder of a record with alive_count 0 has reported alive: its
\* message was not accepted, for the handler panicked, and the holder is in
\* the record as before with the one message of its retrieval
C35_Witness ==
    /\ last.op = "ReportAlive" /\ last.selected = {} /\ last.rejected = {}
    /\ last.err # ""
    /\ last.uuids = <<"u1">>
    /\ "u1" \in DOMAIN RecordsByUUID
    /\ last.ip \in Holders(RecordsByUUID["u1"])
    /\ Len(RecordsByUUID["u1"].AliveMessages[last.ip]) = 1
    /\ RecordsByUUID["u1"].AliveMessages[last.ip][1] = RecordsByUUID["u1"].LastRetrieval

\* ------------------------------------------------------------------- C37
\* C37: with maxRetrySec zero or negative AutoOnlineUnlockFS makes one
\* AutoRetrieveKey call and returns after it: it never sleeps and never
\* calls again.
C37_AsStated ==
    (unlock.pc # "idle" /\ unlock.maxRetrySec <= 0) =>
       /\ unlock.pc # "sleep"
       /\ Len(unlock.calls) <= 1

\* with maxRetrySec 0 the first call failed within the second in which the
\* routine began; the routine slept, called again five seconds later and
\* only then gave up
C37_Witness ==
    /\ unlock.pc = "done" /\ unlock.maxRetrySec = 0
    /\ unlock.result = "have given up"
    /\ Len(unlock.calls) = 2
    /\ unlock.calls[1].sent = unlock.begin /\ unlock.calls[1].back = unlock.begin
    /\ Failed(unlock.calls[1])
    /\ unlock.calls[2].sent = unlock.begin + AUTO_UNLOCK_RETRY_INTERVAL_SEC

\* --------------------------------------------- the alive reports
\* routine.ReportAlive on a client computer, for the one uuid it unlocked:
\* call client.ReportAlive, return if the reply lists rejected uuids, else
\* count or reset the failures and sleep.  The key server is reachable or
\* not as the environment has it.
REPORT_ALIVE_INTERVAL_SEC == 10

\* the reports the model counts (a counter stays at this number once there)
MaxReports == 3

\* numFailures matters up to 5, where the messages are suppressed
FailuresShown == 5

Capped(n, most) == IF n < most THEN n + 1 ELSE most

\* what client.ReportAlive may return: a reply that rejects nothing, a reply
\* that lists the uuid as rejected, or an error of DoRPC with no reply; a
\* server that cannot be reached gives the error
ReportOutcomes(server) ==
    IF server = "up" THEN {"accepted", "rejected", "error"} ELSE {"error"}

\* variant: an error of the call ends the loop too
StopReporting_OnError(outcome) == outcome \in {"rejected", "error"}

\* if len(rejected) > 0 { return ... }
StopReporting(outcome) == outcome = "rejected"

\* ReportAlive begins; since: the seconds slept since the call before
\* returned; sent, delivered: the calls made and the calls the server
\* answered, as far as they are counted
ReportStart(server) ==
    /\ unlock.pc = "idle"
    /\ unlock' = [pc |-> "reporting", server |-> server, outcome |-> "", numFailures |-> 0,
                  since |-> 0, sent |-> 0, delivered |-> 0, result |-> ""]
    /\ UnlockAlone

\* the key server goes away or comes back
ServerChanges ==
    /\ unlock.pc \in {"reporting", "waiting"}
    /\ unlock' = [unlock EXCEPT !.server = IF @ = "up" THEN "down" ELSE "up"]
    /\ UnlockAlone

\* one pass of the loop from client.ReportAlive to the return or to the sleep
ReportCall(outcome) ==
    /\ unlock.pc = "reporting"
    /\ outcome \in ReportOutcomes(unlock.server)
    /\ unlock' =
         IF StopReporting(outcome)
         THEN [unlock EXCEPT !.pc = "stopped", !.outcome = outcome,
                             !.sent = Capped(@, MaxReports),
                             !.delivered = Capped(@, MaxReports),
                             !.result = "server has rejected it"]
         ELSE [unlock EXCEPT !.pc = "waiting", !.outcome = outcome,
                             !.sent = Capped(@, MaxReports),
                             !.delivered = IF outcome = "accepted"
                                           THEN Capped(@, MaxReports) ELSE @,
                             !.numFailures = IF outcome = "accepted" THEN 0
                                             ELSE Capped(@, FailuresShown + 1)]
    /\ UnlockAlone

\* time.Sleep(REPORT_ALIVE_INTERVAL_SEC * time.Second)
ReportSleep ==
    /\ unlock.pc = "waiting"
    /\ unlock' = [unlock EXCEPT !.pc = "reporting", !.since = REPORT_ALIVE_INTERVAL_SEC]
    /\ UnlockAlone

ReportCallReturns == \E outcome \in {"accepted", "rejected", "error"} : ReportCall(outcome)

NextReport ==
    \/ \E server \in {"up", "down"} : ReportStart(server)
    \/ ServerChanges
    \/ ReportCallReturns
    \/ ReportSleep

SpecReport == InitDB /\ [][NextReport]_vars

\* every call returns (DoRPC dials with a timeout) and every sleep ends
SpecReportFair == SpecReport /\ WF_vars(ReportCallReturns) /\ WF_vars(ReportSleep)

UUIDChars == {"a", "-", "/", ".", " "}

\* the characters of UUIDChars that are letters, digits or '-'
PlainChars == {"a", "-"}

\* the longest uuid of a request
MaxLen == 4

UUIDStrings == UNION {[1..n -> UUIDChars] : n \in 0..MaxLen}

MountPoints == {<<>>, <<"/", "a">>}

\* the key database directory, and the directories that exist besides it
Dir == <<"/", "d">>

Directories == {<<"/">>, Dir}

DotDot == <<".", ".">>

\* the elements of a path between its separators, empty ones included
RECURSIVE Elements(_)
Elements(p) ==
    IF p = <<>> THEN << <<>> >>
    ELSE LET rest == Elements(Tail(p))
         IN IF Head(p) = "/" THEN << <<>> >> \o rest
            ELSE << <<Head(p)>> \o Head(rest) >> \o Tail(rest)

\* filepath.Clean's pass over the elements: an empty element and "." are
\* skipped, ".." takes back the element before it, is dropped at the root
\* and is kept at the front of a path that is not rooted
RECURSIVE Kept(_, _, _)
Kept(elems, out, rooted) ==
    IF elems = <<>> THEN out
    ELSE LET e == Head(elems)
             next == CASE e = <<>> \/ e = <<".">> -> out
                       [] e = DotDot /\ out # <<>> /\ out[Len(out)] # DotDot ->
                              SubSeq(out, 1, Len(out) - 1)
                       [] e = DotDot /\ rooted -> out
                       [] OTHER -> Append(out, e)
         IN Kept(Tail(elems), next, rooted)

RECURSIVE Joined(_)
Joined(elems) ==
    IF elems = <<>> THEN <<>>
    ELSE IF Len(elems) = 1 THEN elems[1]
    ELSE elems[1] \o <<"/">> \o Joined(Tail(elems))

\* filepath.Clean (path.Clean is the same on the server's systems)
Clean(p) ==
    IF p = <<>> THEN <<".">>
    ELSE LET rooted == p[1] = "/"
             out == (IF rooted THEN <<"/">> ELSE <<>>) \o Joined(Kept(Elements(p), <<>>, rooted))
         IN IF out = <<>> THEN <<".">> ELSE out

\* path.Join(dir, name) for a dir that is not empty
JoinPath(dir, name) == IF name = <<>> THEN Clean(dir) ELSE Clean(dir \o <<"/">> \o name)

\* the directory a cleaned, rooted path lies in
RECURSIVE ParentDir(_)
ParentDir(f) ==
    IF Len(f) <= 1 THEN <<"/">>
    ELSE IF f[Len(f)] = "/" THEN (IF Len(f) = 2 THEN <<"/">> ELSE SubSeq(f, 1, Len(f) - 1))
    ELSE ParentDir(SubSeq(f, 1, Len(f) - 1) )

\* CreateKeyReq.Validate
Validate(uuid, mountPoint) ==
    CASE uuid = <<>> -> "UUID must not be empty"
      [] Clean(uuid) # uuid -> "Illegal characters appeared in UUID"
      [] mountPoint = <<>> -> "Mount point must not be empty"
      [] OTHER -> ""

\* os.OpenFile(path, O_CREATE|O_WRONLY|O_TRUNC) succeeds where the
\* directory of the path exists and the path is no directory itself
CanOpen(f) == ParentDir(f) \in Directories /\ f \notin Directories

\* CreateKey for a request whose password is right, with a KMIP backend
\* that works: Validate, then upsert of the record, which opens and writes
\* the file path.Join(db.Dir, rec.UUID).  disk: the files written, by path.
CreateKeyNamed(uuid, mountPoint) ==
    /\ last.op = "start"
    /\ LET err == Validate(uuid, mountPoint)
           f == JoinPath(Dir, uuid)
       IN IF err # ""
          THEN /\ last' = [op |-> "CreateKey", uuid |-> uuid, mountPoint |-> mountPoint,
                           err |-> err, file |-> <<>>]
               /\ disk' = disk
          ELSE IF CanOpen(f)
          THEN /\ last' = [op |-> "CreateKey", uuid |-> uuid, mountPoint |-> mountPoint,
                           err |-> "", file |-> f]
               /\ disk' = MapPut(disk, f, uuid)
          ELSE /\ last' = [op |-> "CreateKey", uuid |-> uuid, mountPoint |-> mountPoint,
                           err |-> "IO", file |-> f]
               /\ disk' = disk
    /\ UNCHANGED <<RecordsByUUID, RecordsByID, LastSequenceNum, now, crashed, assigned>>
    /\ DiskAlone

NextNamed == \E uuid \in UUIDStrings, mountPoint \in MountPoints : CreateKeyNamed(uuid, mountPoint)

SpecNamed == InitDB /\ [][NextNamed]_vars

\* ------------------------------------------------------------------- C38
\* C38: a CreateKey request whose uuid is empty or holds a character other
\* than a letter, a digit or '-' is refused by Validate and writes no file,
\* and every record file that is written lies directly in the database
\* directory.
C38_AsStated ==
    last.op = "CreateKey" =>
        /\ (last.uuid = <<>> \/ \E i \in 1..Len(last.uuid) : last.uuid[i] \notin PlainChars)
              => /\ last.err \in {"UUID must not be empty", "Illegal characters appeared in UUID"}
                 /\ disk = EmptyMap
        /\ \A f \in DOMAIN disk : ParentDir(f) = Dir

\* the uuid "../a" is its own cleaned form: the request is accepted and the
\* record file is /a, next to the database directory and not in it
C38_Witness ==
    /\ last.op = "CreateKey"
    /\ last.uuid = <<".", ".", "/", "a">>
    /\ last.err = ""
    /\ DOMAIN disk = {<<"/", "a">>}
    /\ ParentDir(<<"/", "a">>) # Dir

====
